---------------------------- MODULE Spec2Model ----------------------------
(***************************************************************************)
(* A model of the C++ <-> Python source translator of                      *)
(* College-Capstone/Capstone: the two tokenizers (lexercpp.py,             *)
(* python_lexer.py), the two recursive-descent parsers (parsercpp.py,      *)
(* python_parser.py), the two semantic analyzers and the two generators.   *)
(*                                                                         *)
(* Text is a sequence of one-character strings; offsets are 0-based as in  *)
(* the Python source (the character at offset p of s is s[p+1]).           *)
(***************************************************************************)
EXTENDS Integers, Sequences, FiniteSets, TLC

VARIABLES
    lang,         \* "cpp" | "py": the source grammar of the run
    contents,     \* the source text handed to tokenize
    position,     \* tokenize: the scan offset
    tokens,       \* tokenize: the token list built so far
    pc,           \* where the run is
    ast,          \* the parser's result
    scope_stack,  \* SemanticAnalyzer.scope_stack
    errors,       \* the diagnostic list of the analysis
    todo,         \* the analyzer's pending work (its call stack, innermost first)
    output,       \* the text the generator returned
    history,      \* what the earlier translations and calls of the run were given
                  \* and returned
    converter     \* the fields of the PythonToCppConverter object

vars == <<lang, contents, position, tokens, pc, ast, scope_stack, errors, todo,
          output, history, converter>>

-----------------------------------------------------------------------------
(* Characters and text helpers                                             *)

Lower == {"a","b","c","d","e","f","g","h","i","j","k","l","m",
          "n","o","p","q","r","s","t","u","v","w","x","y","z"}
Upper == {"A","B","C","D","E","F","G","H","I","J","K","L","M",
          "N","O","P","Q","R","S","T","U","V","W","X","Y","Z"}
Digits == {"0","1","2","3","4","5","6","7","8","9"}
IdentStart == Lower \cup Upper \cup {"_"}
IdentChars == IdentStart \cup Digits
WhiteSpace == {" ", "\t", "\n", "\r", "\f"}
NoChar == ""

\* Python's None, where a token or a node is expected
None == [type |-> "None"]

SetMax(S) == CHOOSE m \in S : \A k \in S : k <= m

\* the character at 0-based offset p, NoChar outside the text
At(s, p) == IF p >= 0 /\ p < Len(s) THEN s[p + 1] ELSE NoChar

\* s[p:q] of Python
Slice(s, p, q) == SubSeq(s, p + 1, q)

\* the literal lit stands at offset p of s
StartsAt(s, p, lit) ==
    /\ p >= 0
    /\ p + Len(lit) <= Len(s)
    /\ \A k \in 1..Len(lit) : s[p + k] = lit[k]

\* regex \b at offset p: exactly one side is a word character
WordBoundary(s, p) == (At(s, p - 1) \in IdentChars) # (At(s, p) \in IdentChars)

\* the offset after the longest run of characters of Class from offset p
RECURSIVE RunEnd(_, _, _)
RunEnd(s, p, Class) ==
    IF At(s, p) \in Class THEN RunEnd(s, p + 1, Class) ELSE p

\* an alternation of literals lit1|lit2|...: the end of the first one that stands at p
RECURSIVE FirstLiteral(_, _, _, _)
FirstLiteral(s, p, lits, k) ==
    IF k > Len(lits) THEN -1
    ELSE IF StartsAt(s, p, lits[k]) THEN p + Len(lits[k])
    ELSE FirstLiteral(s, p, lits, k + 1)

\* \b(w1|w2|...)\b: the first word that stands at p between two word boundaries
RECURSIVE FirstWord(_, _, _, _)
FirstWord(s, p, words, k) ==
    IF k > Len(words) THEN -1
    ELSE IF /\ StartsAt(s, p, words[k])
            /\ WordBoundary(s, p)
            /\ WordBoundary(s, p + Len(words[k]))
         THEN p + Len(words[k])
    ELSE FirstWord(s, p, words, k + 1)

\* a quoted literal without its lookbehind: quote, then ordinary characters or
\* backslash escapes (a backslash and any character but a newline), then quote
RECURSIVE QuotedBody(_, _, _)
QuotedBody(s, p, quote) ==
    LET c == At(s, p) IN
    IF c = NoChar THEN -1
    ELSE IF c = quote THEN p + 1
    ELSE IF c = "\\"
         THEN IF At(s, p + 1) \in {NoChar, "\n"} THEN -1
              ELSE QuotedBody(s, p + 2, quote)
    ELSE QuotedBody(s, p + 1, quote)

Quoted(s, p, quote) ==
    IF At(s, p) = quote THEN QuotedBody(s, p + 1, quote) ELSE -1

NoMatch == [name |-> "NONE", end |-> -1]

\* the first pattern of the list that matches: ends[k] is pattern k's match end
RECURSIVE FirstPattern(_, _, _)
FirstPattern(names, ends, k) ==
    IF k > Len(names) THEN NoMatch
    ELSE IF ends[k] >= 0 THEN [name |-> names[k], end |-> ends[k]]
    ELSE FirstPattern(names, ends, k + 1)

Token(type, value) == [type |-> type, value |-> value]

-----------------------------------------------------------------------------
(* Literal texts of the source, as character sequences                    *)

Txt(w) ==
    CASE w = "    " -> <<" "," "," "," ">>
      [] w = "        " -> <<" "," "," "," "," "," "," "," ">>
      [] w = "    cout" -> <<" "," "," "," ","c","o","u","t">>
      [] w = "    cout << " -> <<" "," "," "," ","c","o","u","t"," ","<","<"," ">>
      [] w = "    for (" -> <<" "," "," "," ","f","o","r"," ","(">>
      [] w = "    if (" -> <<" "," "," "," ","i","f"," ","(">>
      [] w = "    while (" -> <<" "," "," "," ","w","h","i","l","e"," ","(">>
      [] w = " += " -> <<" ","+","="," ">>
      [] w = " += 1" -> <<" ","+","="," ","1">>
      [] w = " -= 1" -> <<" ","-","="," ","1">>
      [] w = " < " -> <<" ","<"," ">>
      [] w = " << " -> <<" ","<","<"," ">>
      [] w = " << endl;" -> <<" ","<","<"," ","e","n","d","l",";">>
      [] w = " = " -> <<" ","="," ">>
      [] w = " = input(" -> <<" ","="," ","i","n","p","u","t","(">>
      [] w = " = int(input(" -> <<" ","="," ","i","n","t","(","i","n","p","u","t","(">>
      [] w = " cout << 2; " -> <<" ","c","o","u","t"," ","<","<"," ","2",";"," ">>
      [] w = " else if (x < " -> <<" ","e","l","s","e"," ","i","f"," ","(","x"," ","<"," ">>
      [] w = " else y = 0;" -> <<" ","e","l","s","e"," ","y"," ","="," ","0",";">>
      [] w = " in range(" -> <<" ","i","n"," ","r","a","n","g","e","(">>
      [] w = " n; i++) cout << i;" -> <<" ","n",";"," ","i","+","+",")"," ","c","o","u","t"," ","<","<"," ","i",";">>
      [] w = " print(2) " -> <<" ","p","r","i","n","t","(","2",")"," ">>
      [] w = " x" -> <<" ","x">>
      [] w = " x = " -> <<" ","x"," ","="," ">>
      [] w = "# x" -> <<"#"," ","x">>
      [] w = "#include <iostream>\n#include <string>\nusing namespace std;\n\nint main() {\n" -> <<"#","i","n","c","l","u","d","e"," ","<","i","o","s","t","r","e","a","m",">","\n","#","i","n","c","l","u","d","e"," ","<","s","t","r","i","n","g",">","\n","u","s","i","n","g"," ","n","a","m","e","s","p","a","c","e"," ","s","t","d",";","\n","\n","i","n","t"," ","m","a","i","n","(",")"," ","{","\n">>
      [] w = "'}" -> <<"'","}">>
      [] w = "():\n    " -> <<"(",")",":","\n"," "," "," "," ">>
      [] w = "(x)" -> <<"(","x",")">>
      [] w = ")" -> <<")">>
      [] w = ") cout << i;" -> <<")"," ","c","o","u","t"," ","<","<"," ","i",";">>
      [] w = ") y = " -> <<")"," ","y"," ","="," ">>
      [] w = ") {" -> <<")"," ","{">>
      [] w = ") {\n" -> <<")"," ","{","\n">>
      [] w = "))" -> <<")",")">>
      [] w = "):" -> <<")",":">>
      [] w = "): x = 1" -> <<")",":"," ","x"," ","="," ","1">>
      [] w = "):\n    " -> <<")",":","\n"," "," "," "," ">>
      [] w = "++" -> <<"+","+">>
      [] w = ", " -> <<","," ">>
      [] w = "--" -> <<"-","-">>
      [] w = "-1" -> <<"-","1">>
      [] w = "1 + 2" -> <<"1"," ","+"," ","2">>
      [] w = "1.5" -> <<"1",".","5">>
      [] w = "2 * y - 1" -> <<"2"," ","*"," ","y"," ","-"," ","1">>
      [] w = ": y = " -> <<":"," ","y"," ","="," ">>
      [] w = ":\n    " -> <<":","\n"," "," "," "," ">>
      [] w = ";" -> <<";">>
      [] w = "; " -> <<";"," ">>
      [] w = "; i " -> <<";"," ","i"," ">>
      [] w = ";\n" -> <<";","\n">>
      [] w = ";\n    cin >> " -> <<";","\n"," "," "," "," ","c","i","n"," ",">",">"," ">>
      [] w = "<=" -> <<"<","=">>
      [] w = "= " -> <<"="," ">>
      [] w = "==" -> <<"=","=">>
      [] w = ">=" -> <<">","=">>
      [] w = "ASSIGNMENT" -> <<"A","S","S","I","G","N","M","E","N","T">>
      [] w = "An unexpected error occurred" -> <<"A","n"," ","u","n","e","x","p","e","c","t","e","d"," ","e","r","r","o","r"," ","o","c","c","u","r","r","e","d">>
      [] w = "BINARY_EXPRESSION" -> <<"B","I","N","A","R","Y","_","E","X","P","R","E","S","S","I","O","N">>
      [] w = "BLOCK" -> <<"B","L","O","C","K">>
      [] w = "BOOLEAN_LITERAL" -> <<"B","O","O","L","E","A","N","_","L","I","T","E","R","A","L">>
      [] w = "Converted code is empty" -> <<"C","o","n","v","e","r","t","e","d"," ","c","o","d","e"," ","i","s"," ","e","m","p","t","y">>
      [] w = "EMPTY_STATEMENT" -> <<"E","M","P","T","Y","_","S","T","A","T","E","M","E","N","T">>
      [] w = "EXPRESSION_STATEMENT" -> <<"E","X","P","R","E","S","S","I","O","N","_","S","T","A","T","E","M","E","N","T">>
      [] w = "FOR_LOOP" -> <<"F","O","R","_","L","O","O","P">>
      [] w = "FUNCTION_CALL" -> <<"F","U","N","C","T","I","O","N","_","C","A","L","L">>
      [] w = "FUNCTION_DEFINITION" -> <<"F","U","N","C","T","I","O","N","_","D","E","F","I","N","I","T","I","O","N">>
      [] w = "IDENTIFIER" -> <<"I","D","E","N","T","I","F","I","E","R">>
      [] w = "IF_STATEMENT" -> <<"I","F","_","S","T","A","T","E","M","E","N","T">>
      [] w = "INCREMENT" -> <<"I","N","C","R","E","M","E","N","T">>
      [] w = "IO_STATEMENT" -> <<"I","O","_","S","T","A","T","E","M","E","N","T">>
      [] w = "If" -> <<"I","f">>
      [] w = "NUMBER" -> <<"N","U","M","B","E","R">>
      [] w = "None" -> <<"N","o","n","e">>
      [] w = "PRINT_STATEMENT" -> <<"P","R","I","N","T","_","S","T","A","T","E","M","E","N","T">>
      [] w = "PROGRAM" -> <<"P","R","O","G","R","A","M">>
      [] w = "RETURN_STATEMENT" -> <<"R","E","T","U","R","N","_","S","T","A","T","E","M","E","N","T">>
      [] w = "STRING_LITERAL" -> <<"S","T","R","I","N","G","_","L","I","T","E","R","A","L">>
      [] w = "VARIABLE_DECLARATION" -> <<"V","A","R","I","A","B","L","E","_","D","E","C","L","A","R","A","T","I","O","N">>
      [] w = "WHILE_LOOP" -> <<"W","H","I","L","E","_","L","O","O","P">>
      [] w = "\")" -> <<"\"",")">>
      [] w = "\"\"" -> <<"\"","\"">>
      [] w = "\"a\"" -> <<"\"","a","\"">>
      [] w = "\"a\" + \"b\"" -> <<"\"","a","\""," ","+"," ","\"","b","\"">>
      [] w = "\"s\"" -> <<"\"","s","\"">>
      [] w = "\\n" -> <<"\\","n">>
      [] w = "\n    " -> <<"\n"," "," "," "," ">>
      [] w = "\n    a = " -> <<"\n"," "," "," "," ","a"," ","="," ">>
      [] w = "\n    else if (" -> <<"\n"," "," "," "," ","e","l","s","e"," ","i","f"," ","(">>
      [] w = "\n    else {\n" -> <<"\n"," "," "," "," ","e","l","s","e"," ","{","\n">>
      [] w = "\n    return 0;\n}" -> <<"\n"," "," "," "," ","r","e","t","u","r","n"," ","0",";","\n","}">>
      [] w = "\n    }" -> <<"\n"," "," "," "," ","}">>
      [] w = "\nb = 1" -> <<"\n","b"," ","="," ","1">>
      [] w = "\nelif " -> <<"\n","e","l","i","f"," ">>
      [] w = "\nelif x < " -> <<"\n","e","l","i","f"," ","x"," ","<"," ">>
      [] w = "\nelse: y = 0" -> <<"\n","e","l","s","e",":"," ","y"," ","="," ","0">>
      [] w = "\nelse:\n    " -> <<"\n","e","l","s","e",":","\n"," "," "," "," ">>
      [] w = "_b" -> <<"_","b">>
      [] w = "auto" -> <<"a","u","t","o">>
      [] w = "b" -> <<"b">>
      [] w = "bb" -> <<"b","b">>
      [] w = "bool" -> <<"b","o","o","l">>
      [] w = "char" -> <<"c","h","a","r">>
      [] w = "cin" -> <<"c","i","n">>
      [] w = "cin >> x;" -> <<"c","i","n"," ",">",">"," ","x",";">>
      [] w = "cout" -> <<"c","o","u","t">>
      [] w = "cout << \"Enter: \";" -> <<"c","o","u","t"," ","<","<"," ","\"","E","n","t","e","r",":"," ","\"",";">>
      [] w = "cout << y;" -> <<"c","o","u","t"," ","<","<"," ","y",";">>
      [] w = "def " -> <<"d","e","f"," ">>
      [] w = "double" -> <<"d","o","u","b","l","e">>
      [] w = "el" -> <<"e","l">>
      [] w = "elif" -> <<"e","l","i","f">>
      [] w = "elif x < " -> <<"e","l","i","f"," ","x"," ","<"," ">>
      [] w = "else" -> <<"e","l","s","e">>
      [] w = "else if (x < " -> <<"e","l","s","e"," ","i","f"," ","(","x"," ","<"," ">>
      [] w = "else {" -> <<"e","l","s","e"," ","{">>
      [] w = "else:" -> <<"e","l","s","e",":">>
      [] w = "endl" -> <<"e","n","d","l">>
      [] w = "f(1)" -> <<"f","(","1",")">>
      [] w = "float" -> <<"f","l","o","a","t">>
      [] w = "float x = 1.5;" -> <<"f","l","o","a","t"," ","x"," ","="," ","1",".","5",";">>
      [] w = "float x = 2;" -> <<"f","l","o","a","t"," ","x"," ","="," ","2",";">>
      [] w = "for" -> <<"f","o","r">>
      [] w = "for " -> <<"f","o","r"," ">>
      [] w = "for (int i = " -> <<"f","o","r"," ","(","i","n","t"," ","i"," ","="," ">>
      [] w = "for (int i = 0; ; i++) cout << i;" -> <<"f","o","r"," ","(","i","n","t"," ","i"," ","="," ","0",";"," ",";"," ","i","+","+",")"," ","c","o","u","t"," ","<","<"," ","i",";">>
      [] w = "for (int i = 0; i < 2; i = k + 1) x++;" -> <<"f","o","r"," ","(","i","n","t"," ","i"," ","="," ","0",";"," ","i"," ","<"," ","2",";"," ","i"," ","="," ","k"," ","+"," ","1",")"," ","x","+","+",";">>
      [] w = "for (int i = 0; i < 2; i++) cout << i;" -> <<"f","o","r"," ","(","i","n","t"," ","i"," ","="," ","0",";"," ","i"," ","<"," ","2",";"," ","i","+","+",")"," ","c","o","u","t"," ","<","<"," ","i",";">>
      [] w = "for (int i = 0; i < 2; i++) { cout << i; }" -> <<"f","o","r"," ","(","i","n","t"," ","i"," ","="," ","0",";"," ","i"," ","<"," ","2",";"," ","i","+","+",")"," ","{"," ","c","o","u","t"," ","<","<"," ","i",";"," ","}">>
      [] w = "for (int i = 0; i < 3; ) cout << i;" -> <<"f","o","r"," ","(","i","n","t"," ","i"," ","="," ","0",";"," ","i"," ","<"," ","3",";"," ",")"," ","c","o","u","t"," ","<","<"," ","i",";">>
      [] w = "for (int i = 0; i < 3; i++) cout << i;" -> <<"f","o","r"," ","(","i","n","t"," ","i"," ","="," ","0",";"," ","i"," ","<"," ","3",";"," ","i","+","+",")"," ","c","o","u","t"," ","<","<"," ","i",";">>
      [] w = "for (int i = 0; i; i++) cout << i;" -> <<"f","o","r"," ","(","i","n","t"," ","i"," ","="," ","0",";"," ","i",";"," ","i","+","+",")"," ","c","o","u","t"," ","<","<"," ","i",";">>
      [] w = "for i in range(" -> <<"f","o","r"," ","i"," ","i","n"," ","r","a","n","g","e","(">>
      [] w = "for i in range(2):" -> <<"f","o","r"," ","i"," ","i","n"," ","r","a","n","g","e","(","2",")",":">>
      [] w = "for i in range(2): print(i)" -> <<"f","o","r"," ","i"," ","i","n"," ","r","a","n","g","e","(","2",")",":"," ","p","r","i","n","t","(","i",")">>
      [] w = "for i in range(3): print(i)" -> <<"f","o","r"," ","i"," ","i","n"," ","r","a","n","g","e","(","3",")",":"," ","p","r","i","n","t","(","i",")">>
      [] w = "i += " -> <<"i"," ","+","="," ">>
      [] w = "i -= " -> <<"i"," ","-","="," ">>
      [] w = "i++" -> <<"i","+","+">>
      [] w = "i--" -> <<"i","-","-">>
      [] w = "if" -> <<"i","f">>
      [] w = "if " -> <<"i","f"," ">>
      [] w = "if (x < " -> <<"i","f"," ","(","x"," ","<"," ">>
      [] w = "if (x < 1) x = 2; else y = 1;" -> <<"i","f"," ","(","x"," ","<"," ","1",")"," ","x"," ","="," ","2",";"," ","e","l","s","e"," ","y"," ","="," ","1",";">>
      [] w = "if (x < 1) y = 1;" -> <<"i","f"," ","(","x"," ","<"," ","1",")"," ","y"," ","="," ","1",";">>
      [] w = "if x < " -> <<"i","f"," ","x"," ","<"," ">>
      [] w = "if x < 1:" -> <<"i","f"," ","x"," ","<"," ","1",":">>
      [] w = "if x < 1: y = 1" -> <<"i","f"," ","x"," ","<"," ","1",":"," ","y"," ","="," ","1">>
      [] w = "if x < 1: y = 1\nelse: y = 2" -> <<"i","f"," ","x"," ","<"," ","1",":"," ","y"," ","="," ","1","\n","e","l","s","e",":"," ","y"," ","="," ","2">>
      [] w = "in" -> <<"i","n">>
      [] w = "include" -> <<"i","n","c","l","u","d","e">>
      [] w = "input" -> <<"i","n","p","u","t">>
      [] w = "input(\"" -> <<"i","n","p","u","t","(","\"">>
      [] w = "int" -> <<"i","n","t">>
      [] w = "int " -> <<"i","n","t"," ">>
      [] w = "int f() { for (int i = 0; i < 2; i++) { return 1; } }" -> <<"i","n","t"," ","f","(",")"," ","{"," ","f","o","r"," ","(","i","n","t"," ","i"," ","="," ","0",";"," ","i"," ","<"," ","2",";"," ","i","+","+",")"," ","{"," ","r","e","t","u","r","n"," ","1",";"," ","}"," ","}">>
      [] w = "int f() { int x = 1; if (x < 2) return 1; }" -> <<"i","n","t"," ","f","(",")"," ","{"," ","i","n","t"," ","x"," ","="," ","1",";"," ","i","f"," ","(","x"," ","<"," ","2",")"," ","r","e","t","u","r","n"," ","1",";"," ","}">>
      [] w = "int f() { int x = 1; if (x < 2) { return 1; } return 2; }" -> <<"i","n","t"," ","f","(",")"," ","{"," ","i","n","t"," ","x"," ","="," ","1",";"," ","i","f"," ","(","x"," ","<"," ","2",")"," ","{"," ","r","e","t","u","r","n"," ","1",";"," ","}"," ","r","e","t","u","r","n"," ","2",";"," ","}">>
      [] w = "int f() { int x = 1; while (x < 2) { return 1; } }" -> <<"i","n","t"," ","f","(",")"," ","{"," ","i","n","t"," ","x"," ","="," ","1",";"," ","w","h","i","l","e"," ","(","x"," ","<"," ","2",")"," ","{"," ","r","e","t","u","r","n"," ","1",";"," ","}"," ","}">>
      [] w = "int f() { return 0; } int main() { return 0; }" -> <<"i","n","t"," ","f","(",")"," ","{"," ","r","e","t","u","r","n"," ","0",";"," ","}"," ","i","n","t"," ","m","a","i","n","(",")"," ","{"," ","r","e","t","u","r","n"," ","0",";"," ","}">>
      [] w = "int f() { return 1; }" -> <<"i","n","t"," ","f","(",")"," ","{"," ","r","e","t","u","r","n"," ","1",";"," ","}">>
      [] w = "int f() { return 1; } int main() { f(); return 0; }" -> <<"i","n","t"," ","f","(",")"," ","{"," ","r","e","t","u","r","n"," ","1",";"," ","}"," ","i","n","t"," ","m","a","i","n","(",")"," ","{"," ","f","(",")",";"," ","r","e","t","u","r","n"," ","0",";"," ","}">>
      [] w = "int f() { return 1; } int main() { return 0; }" -> <<"i","n","t"," ","f","(",")"," ","{"," ","r","e","t","u","r","n"," ","1",";"," ","}"," ","i","n","t"," ","m","a","i","n","(",")"," ","{"," ","r","e","t","u","r","n"," ","0",";"," ","}">>
      [] w = "int i = 0; for (i = 0; i < 2; i = i + 1) { cout << i; }" -> <<"i","n","t"," ","i"," ","="," ","0",";"," ","f","o","r"," ","(","i"," ","="," ","0",";"," ","i"," ","<"," ","2",";"," ","i"," ","="," ","i"," ","+"," ","1",")"," ","{"," ","c","o","u","t"," ","<","<"," ","i",";"," ","}">>
      [] w = "int main() { int x = 1; if (x < 2) { return 1; } }" -> <<"i","n","t"," ","m","a","i","n","(",")"," ","{"," ","i","n","t"," ","x"," ","="," ","1",";"," ","i","f"," ","(","x"," ","<"," ","2",")"," ","{"," ","r","e","t","u","r","n"," ","1",";"," ","}"," ","}">>
      [] w = "int main() { int x = 1; return 0; }" -> <<"i","n","t"," ","m","a","i","n","(",")"," ","{"," ","i","n","t"," ","x"," ","="," ","1",";"," ","r","e","t","u","r","n"," ","0",";"," ","}">>
      [] w = "int main() { return 0; }" -> <<"i","n","t"," ","m","a","i","n","(",")"," ","{"," ","r","e","t","u","r","n"," ","0",";"," ","}">>
      [] w = "int main() { return 0; } int f() { return 0; }" -> <<"i","n","t"," ","m","a","i","n","(",")"," ","{"," ","r","e","t","u","r","n"," ","0",";"," ","}"," ","i","n","t"," ","f","(",")"," ","{"," ","r","e","t","u","r","n"," ","0",";"," ","}">>
      [] w = "int n = 1; cout << \"Age: \" << n; cin >> n;" -> <<"i","n","t"," ","n"," ","="," ","1",";"," ","c","o","u","t"," ","<","<"," ","\"","A","g","e",":"," ","\""," ","<","<"," ","n",";"," ","c","i","n"," ",">",">"," ","n",";">>
      [] w = "int n = 1; cout << \"Age: \";" -> <<"i","n","t"," ","n"," ","="," ","1",";"," ","c","o","u","t"," ","<","<"," ","\"","A","g","e",":"," ","\"",";">>
      [] w = "int n = 1; cout << \"Age: \"; cin >> n;" -> <<"i","n","t"," ","n"," ","="," ","1",";"," ","c","o","u","t"," ","<","<"," ","\"","A","g","e",":"," ","\"",";"," ","c","i","n"," ",">",">"," ","n",";">>
      [] w = "int n = 1; cout << n; cin >> n;" -> <<"i","n","t"," ","n"," ","="," ","1",";"," ","c","o","u","t"," ","<","<"," ","n",";"," ","c","i","n"," ",">",">"," ","n",";">>
      [] w = "int n = 3; for (int i = 0; i " -> <<"i","n","t"," ","n"," ","="," ","3",";"," ","f","o","r"," ","(","i","n","t"," ","i"," ","="," ","0",";"," ","i"," ">>
      [] w = "int n = 3; for (int i = 0; i < n; i++) cout << i;" -> <<"i","n","t"," ","n"," ","="," ","3",";"," ","f","o","r"," ","(","i","n","t"," ","i"," ","="," ","0",";"," ","i"," ","<"," ","n",";"," ","i","+","+",")"," ","c","o","u","t"," ","<","<"," ","i",";">>
      [] w = "int n = 3; for (int i = 0; i > n; i++) cout << i;" -> <<"i","n","t"," ","n"," ","="," ","3",";"," ","f","o","r"," ","(","i","n","t"," ","i"," ","="," ","0",";"," ","i"," ",">"," ","n",";"," ","i","+","+",")"," ","c","o","u","t"," ","<","<"," ","i",";">>
      [] w = "int x" -> <<"i","n","t"," ","x">>
      [] w = "int x = 0; int y = 0; " -> <<"i","n","t"," ","x"," ","="," ","0",";"," ","i","n","t"," ","y"," ","="," ","0",";"," ">>
      [] w = "int x = 1 $" -> <<"i","n","t"," ","x"," ","="," ","1"," ","$">>
      [] w = "int x = 1;" -> <<"i","n","t"," ","x"," ","="," ","1",";">>
      [] w = "int x = 1; int y = 2; " -> <<"i","n","t"," ","x"," ","="," ","1",";"," ","i","n","t"," ","y"," ","="," ","2",";"," ">>
      [] w = "int x = 2;" -> <<"i","n","t"," ","x"," ","="," ","2",";">>
      [] w = "int x = 5;" -> <<"i","n","t"," ","x"," ","="," ","5",";">>
      [] w = "int x = ;" -> <<"i","n","t"," ","x"," ","="," ",";">>
      [] w = "int x @" -> <<"i","n","t"," ","x"," ","@">>
      [] w = "int(input(\"n\"))" -> <<"i","n","t","(","i","n","p","u","t","(","\"","n","\"",")",")">>
      [] w = "ints" -> <<"i","n","t","s">>
      [] w = "main" -> <<"m","a","i","n">>
      [] w = "namespace" -> <<"n","a","m","e","s","p","a","c","e">>
      [] w = "print" -> <<"p","r","i","n","t">>
      [] w = "print(" -> <<"p","r","i","n","t","(">>
      [] w = "print()" -> <<"p","r","i","n","t","(",")">>
      [] w = "print(f\"" -> <<"p","r","i","n","t","(","f","\"">>
      [] w = "print(y)" -> <<"p","r","i","n","t","(","y",")">>
      [] w = "range" -> <<"r","a","n","g","e">>
      [] w = "return" -> <<"r","e","t","u","r","n">>
      [] w = "return " -> <<"r","e","t","u","r","n"," ">>
      [] w = "std" -> <<"s","t","d">>
      [] w = "string" -> <<"s","t","r","i","n","g">>
      [] w = "string s = \"a\"; s++;" -> <<"s","t","r","i","n","g"," ","s"," ","="," ","\"","a","\"",";"," ","s","+","+",";">>
      [] w = "string s; cout << \"Enter: \"; cin >> s;" -> <<"s","t","r","i","n","g"," ","s",";"," ","c","o","u","t"," ","<","<"," ","\"","E","n","t","e","r",":"," ","\"",";"," ","c","i","n"," ",">",">"," ","s",";">>
      [] w = "string x;" -> <<"s","t","r","i","n","g"," ","x",";">>
      [] w = "true" -> <<"t","r","u","e">>
      [] w = "using" -> <<"u","s","i","n","g">>
      [] w = "void" -> <<"v","o","i","d">>
      [] w = "while" -> <<"w","h","i","l","e">>
      [] w = "while " -> <<"w","h","i","l","e"," ">>
      [] w = "while (x < 2) x++;" -> <<"w","h","i","l","e"," ","(","x"," ","<"," ","2",")"," ","x","+","+",";">>
      [] w = "while x < 2:" -> <<"w","h","i","l","e"," ","x"," ","<"," ","2",":">>
      [] w = "x " -> <<"x"," ">>
      [] w = "x %= 2;" -> <<"x"," ","%","="," ","2",";">>
      [] w = "x += 2" -> <<"x"," ","+","="," ","2">>
      [] w = "x =" -> <<"x"," ","=">>
      [] w = "x = " -> <<"x"," ","="," ">>
      [] w = "x = 0\ny = 0\n" -> <<"x"," ","="," ","0","\n","y"," ","="," ","0","\n">>
      [] w = "x = 1" -> <<"x"," ","="," ","1">>
      [] w = "x = 1 $" -> <<"x"," ","="," ","1"," ","$">>
      [] w = "x = 1.5" -> <<"x"," ","="," ","1",".","5">>
      [] w = "x = 1\nx = input(\"Enter: \")" -> <<"x"," ","="," ","1","\n","x"," ","="," ","i","n","p","u","t","(","\"","E","n","t","e","r",":"," ","\"",")">>
      [] w = "x = 1\ny = 2\n" -> <<"x"," ","="," ","1","\n","y"," ","="," ","2","\n">>
      [] w = "x = 2" -> <<"x"," ","="," ","2">>
      [] w = "x = 2 $" -> <<"x"," ","="," ","2"," ","$">>
      [] w = "x = 5" -> <<"x"," ","="," ","5">>
      [] w = "x = = 1" -> <<"x"," ","="," ","="," ","1">>
      [] w = "x = f(1)" -> <<"x"," ","="," ","f","(","1",")">>
      [] w = "x = input(\"Enter: \")" -> <<"x"," ","="," ","i","n","p","u","t","(","\"","E","n","t","e","r",":"," ","\"",")">>
      [] w = "x = input(\"Enter: \")\nx = int(x)" -> <<"x"," ","="," ","i","n","p","u","t","(","\"","E","n","t","e","r",":"," ","\"",")","\n","x"," ","="," ","i","n","t","(","x",")">>
      [] w = "x = x " -> <<"x"," ","="," ","x"," ">>
      [] w = "x = x + 1;" -> <<"x"," ","="," ","x"," ","+"," ","1",";">>
      [] w = "x1" -> <<"x","1">>
      [] w = "y * 2" -> <<"y"," ","*"," ","2">>
      [] w = "y + 1" -> <<"y"," ","+"," ","1">>
      [] w = "y = 1\nx = " -> <<"y"," ","="," ","1","\n","x"," ","="," ">>
      [] w = "y = 2;" -> <<"y"," ","="," ","2",";">>
      [] w = "y = z" -> <<"y"," ","="," ","z">>
      [] w = "y = z;" -> <<"y"," ","="," ","z",";">>
      [] w = "{ int x = 3; y = x; }" -> <<"{"," ","i","n","t"," ","x"," ","="," ","3",";"," ","y"," ","="," ","x",";"," ","}">>
      [] w = "{ int y = 1; float y = 2; }" -> <<"{"," ","i","n","t"," ","y"," ","="," ","1",";"," ","f","l","o","a","t"," ","y"," ","="," ","2",";"," ","}">>
      [] w = "{'type': 'function', 'params': {}, 'return_type': '" -> <<"{","'","t","y","p","e","'",":"," ","'","f","u","n","c","t","i","o","n","'",","," ","'","p","a","r","a","m","s","'",":"," ","{","}",","," ","'","r","e","t","u","r","n","_","t","y","p","e","'",":"," ","'">>

-----------------------------------------------------------------------------
(* lexercpp.py                                                             *)

\* the alternatives of the KEYWORD pattern, in the order of the pattern
CppKeywordWords ==
    <<Txt("int"), Txt("float"), Txt("double"), Txt("bool"), Txt("char"), Txt("string"), Txt("void"), Txt("if"), Txt("else"), Txt("while"), Txt("for"), Txt("return"), Txt("using"), Txt("namespace"), Txt("include")>>

\* Lexer.__init__: re.findall(r'\w+', keyword_pattern). The pattern text is
\* \b(int|...|include)\b, so the word runs found are the b of each \b and
\* the fifteen alternatives.
CppKeywords == {Txt("b")} \cup {CppKeywordWords[k] : k \in 1..Len(CppKeywordWords)}

CppTokenNames ==
    <<"KEYWORD", "IDENTIFIER", "NUMBER", "INSERTION_OPERATOR", "RELATIONAL_OPERATOR",
      "COMPOUND_ASSIGNMENT", "ARITHMETIC_OPERATOR", "STRING", "SEMICOLON", "COMMA",
      "LBRACE", "RBRACE", "LPAREN", "RPAREN", "SPECIAL_CHARACTER", "APOSTROPHE",
      "WHITESPACE">>

\* a one-character class
OneOf(s, p, Class) == IF At(s, p) \in Class THEN p + 1 ELSE -1

\* \b[a-zA-Z_][a-zA-Z0-9_]*\b
CppIdentifierEnd(s, p) ==
    IF At(s, p) \in IdentStart /\ WordBoundary(s, p)
    THEN LET e == RunEnd(s, p + 1, IdentChars)
             ok == {q \in (p + 1)..e : WordBoundary(s, q)}
         IN IF ok = {} THEN -1 ELSE SetMax(ok)
    ELSE -1

\* (\.\d*)?\b after the digits that end at q: the longest fraction that ends
\* at a word boundary, else no fraction if q is a word boundary
CppFractionEnd(s, q) ==
    LET frac == IF At(s, q) = "."
                THEN {r \in (q + 1)..RunEnd(s, q + 1, Digits) : WordBoundary(s, r)}
                ELSE {}
    IN IF frac # {} THEN SetMax(frac)
       ELSE IF WordBoundary(s, q) THEN q ELSE -1

\* \b\d+(\.\d*)?\b
CppNumberEnd(s, p) ==
    IF At(s, p) \in Digits /\ WordBoundary(s, p)
    THEN LET ok == {q \in (p + 1)..RunEnd(s, p, Digits) : CppFractionEnd(s, q) >= 0}
         IN IF ok = {} THEN -1 ELSE CppFractionEnd(s, SetMax(ok))
    ELSE -1

\* \s+
WhitespaceEnd(s, p) ==
    IF At(s, p) \in WhiteSpace THEN RunEnd(s, p, WhiteSpace) ELSE -1

\* TOKEN_TYPES: the match end of each pattern at offset p, in declaration order
CppPatternEnds(s, p) ==
    << FirstWord(s, p, CppKeywordWords, 1),
       CppIdentifierEnd(s, p),
       CppNumberEnd(s, p),
       FirstLiteral(s, p, << <<">",">">>, <<"<","<">> >>, 1),
       FirstLiteral(s, p, << <<"<","=">>, <<">","=">>, <<"=","=">>, <<"!","=">>,
                             <<"<">>, <<">">> >>, 1),
       FirstLiteral(s, p, << <<"+","=">>, <<"-","=">>, <<"*","=">>, <<"/","=">> >>, 1),
       FirstLiteral(s, p, << <<"+","+">>, <<"-","-">>, <<"+">>, <<"-">>, <<"*">>,
                             <<"/">>, <<"%">>, <<"=">> >>, 1),
       Quoted(s, p, "\""),
       OneOf(s, p, {";"}),
       OneOf(s, p, {","}),
       OneOf(s, p, {"{"}),
       OneOf(s, p, {"}"}),
       OneOf(s, p, {"("}),
       OneOf(s, p, {")"}),
       OneOf(s, p, {"@", "_", "!", "#", "$", "^", "&", "?", "~"}),
       OneOf(s, p, {"'"}),
       WhitespaceEnd(s, p) >>

\* the inner for loop of Lexer.tokenize: the first pattern that matches at p
CppMatchAt(s, p) == FirstPattern(CppTokenNames, CppPatternEnds(s, p), 1)

\* one iteration of the while loop of Lexer.tokenize from offset p with the
\* token list toks: the new offset and list, or the failure raised
CppLexIteration(s, p, toks) ==
    LET m == CppMatchAt(s, p)
        value == Slice(s, p, m.end)
    IN IF m.name = "NONE" THEN [raised |-> TRUE, position |-> p, tokens |-> toks]
       ELSE [raised |-> FALSE,
             position |-> m.end,
             tokens |-> IF m.name = "IDENTIFIER" /\ value \in CppKeywords
                        THEN Append(toks, Token("KEYWORD", value))
                        ELSE IF m.name # "WHITESPACE"
                        THEN Append(toks, Token(m.name, value))
                        ELSE toks]

-----------------------------------------------------------------------------
(* python_lexer.py                                                         *)

PyKeywordWords == <<Txt("print"), Txt("input"), Txt("while"), Txt("for"), Txt("if"), Txt("elif"), Txt("else")>>

PyTokenNames ==
    <<"STRING", "KEYWORD", "IDENTIFIER", "COMPARISON_OPERATOR", "ARITHMETIC_OPERATOR",
      "ASSIGNMENT_OPERATOR", "LOGICAL_OPERATOR", "BITWISE_OPERATOR", "LPAREN", "RPAREN",
      "WHITESPACE", "COLON", "NUMBER", "COMMA">>

\* (?<!\\)('...'|"...")
PyStringEnd(s, p) ==
    IF At(s, p - 1) = "\\" THEN -1
    ELSE IF At(s, p) = "'" THEN Quoted(s, p, "'")
    ELSE Quoted(s, p, "\"")

\* [a-zA-Z_][a-zA-Z0-9_]*
PyIdentifierEnd(s, p) ==
    IF At(s, p) \in IdentStart THEN RunEnd(s, p + 1, IdentChars) ELSE -1

\* [<>]=?|==|!=|>=|<=
PyComparisonEnd(s, p) ==
    IF At(s, p) \in {"<", ">"}
    THEN IF At(s, p + 1) = "=" THEN p + 2 ELSE p + 1
    ELSE FirstLiteral(s, p, << <<"=","=">>, <<"!","=">> >>, 1)

\* &|\||~|^ : the last alternative is the unescaped anchor ^, which matches
\* the empty string at the beginning of the text and nowhere else
PyBitwiseEnd(s, p) ==
    IF At(s, p) \in {"&", "|", "~"} THEN p + 1
    ELSE IF p = 0 THEN p
    ELSE -1

\* \d+(\.\d*)?
PyNumberEnd(s, p) ==
    IF At(s, p) \in Digits
    THEN LET d == RunEnd(s, p, Digits)
         IN IF At(s, d) = "." THEN RunEnd(s, d + 1, Digits) ELSE d
    ELSE -1

\* TOKEN_TYPES: the match end of each pattern at offset p, in declaration order
PyPatternEnds(s, p) ==
    << PyStringEnd(s, p),
       FirstWord(s, p, PyKeywordWords, 1),
       PyIdentifierEnd(s, p),
       PyComparisonEnd(s, p),
       OneOf(s, p, {"+", "-", "*", "/", "%"}),
       OneOf(s, p, {"="}),
       FirstLiteral(s, p, << <<"&","&">>, <<"|","|">> >>, 1),
       PyBitwiseEnd(s, p),
       OneOf(s, p, {"("}),
       OneOf(s, p, {")"}),
       WhitespaceEnd(s, p),
       OneOf(s, p, {":"}),
       PyNumberEnd(s, p),
       OneOf(s, p, {","}) >>

\* the inner for loop of PythonLexer.tokenize
PyMatchAt(s, p) == FirstPattern(PyTokenNames, PyPatternEnds(s, p), 1)

\* one iteration of the while loop of PythonLexer.tokenize
PyLexIteration(s, p, toks) ==
    LET m == PyMatchAt(s, p)
    IN IF m.name = "NONE" THEN [raised |-> TRUE, position |-> p, tokens |-> toks]
       ELSE [raised |-> FALSE,
             position |-> m.end,
             tokens |-> IF m.name # "WHITESPACE"
                        THEN Append(toks, Token(m.name, Slice(s, p, m.end)))
                        ELSE toks]

\* tokenize run to its end. A run ends "ok" with the token list, "raised" with
\* the offset of the ValueError, or "hang" when an iteration leaves the scan
\* offset where it was: the while loop then repeats that iteration for ever.
RECURSIVE CppLexFrom(_, _, _)
CppLexAfter(s, p, toks, it) ==
    IF it.raised THEN [status |-> "raised", tokens |-> toks, position |-> p]
    ELSE IF it.position = p THEN [status |-> "hang", tokens |-> toks, position |-> p]
    ELSE CppLexFrom(s, it.position, it.tokens)
CppLexFrom(s, p, toks) ==
    IF p >= Len(s) THEN [status |-> "ok", tokens |-> toks, position |-> p]
    ELSE CppLexAfter(s, p, toks, CppLexIteration(s, p, toks))

CppTokenize(s) == CppLexFrom(s, 0, <<>>)

RECURSIVE PyLexFrom(_, _, _)
PyLexAfter(s, p, toks, it) ==
    IF it.raised THEN [status |-> "raised", tokens |-> toks, position |-> p]
    ELSE IF it.position = p THEN [status |-> "hang", tokens |-> toks, position |-> p]
    ELSE PyLexFrom(s, it.position, it.tokens)
PyLexFrom(s, p, toks) ==
    IF p >= Len(s) THEN [status |-> "ok", tokens |-> toks, position |-> p]
    ELSE PyLexAfter(s, p, toks, PyLexIteration(s, p, toks))

PyTokenize(s) == PyLexFrom(s, 0, <<>>)

-----------------------------------------------------------------------------
(* parsercpp.py                                                            *)

\* a parse step's result: [ok |-> TRUE, ..., pos |-> the parser's position]
\* or the exception raised
Fail(kind) == [ok |-> FALSE, err |-> kind]

\* run K on the result r unless r is an exception, which propagates
Then(r, K(_)) == IF r.ok THEN K(r) ELSE r

Parsed(node, pos) == [ok |-> TRUE, node |-> node, pos |-> pos]

\* Parser.current_token
Cur(toks, pos) == IF pos >= 0 /\ pos < Len(toks) THEN toks[pos + 1] ELSE None

\* Parser.match
Match(toks, pos, expected_type) ==
    IF Cur(toks, pos).type = expected_type
    THEN [ok |-> TRUE, tok |-> Cur(toks, pos), pos |-> pos + 1]
    ELSE Fail("ValueError")

\* the token type is one of a list
TypeIn(tok, types) == tok.type \in types

IncOps == {<<"+","+">>, <<"-","-">>}
CppTypeWords ==
    {Txt("int"), Txt("float"), Txt("double"), Txt("bool"), Txt("char"),
     Txt("string"), Txt("void")}

Number(v) == [type |-> "NUMBER", value |-> v]
Identifier(v) == [type |-> "IDENTIFIER", value |-> v]
Binary(op, l, r) == [type |-> "BINARY_EXPRESSION", operator |-> op, left |-> l, right |-> r]
Assignment(v, e) == [type |-> "ASSIGNMENT", var_name |-> v, expression |-> e]
Block(stmts) == [type |-> "BLOCK", statements |-> stmts]
IfNode(c, t, f) ==
    [type |-> "IF_STATEMENT", condition |-> c, true_branch |-> t, false_branch |-> f]

RECURSIVE CppParseExpression(_, _), CppParseTerm(_, _), CppExpressionLoop(_, _, _)

\* ExpressionParser.parse_term
CppParseTerm(toks, pos) ==
    LET token == Cur(toks, pos) IN
    IF token = None THEN Fail("TypeError")
    ELSE IF token.type = "NUMBER" THEN Parsed(Number(token.value), pos + 1)
    ELSE IF token.type = "IDENTIFIER"
         THEN LET nxt == Cur(toks, pos + 1) IN
              IF nxt.type = "ARITHMETIC_OPERATOR" /\ nxt.value \in IncOps
              THEN Parsed([type |-> "INCREMENT", var_name |-> token.value,
                           operator |-> nxt.value], pos + 2)
              ELSE Parsed(Identifier(token.value), pos + 1)
    ELSE IF token.type = "STRING"
         THEN Parsed([type |-> "STRING_LITERAL", value |-> token.value], pos + 1)
    ELSE IF token.type = "LPAREN"
         THEN Then(CppParseExpression(toks, pos + 1), LAMBDA e :
              Then(Match(toks, e.pos, "RPAREN"), LAMBDA m :
              Parsed(e.node, m.pos)))
    ELSE Fail("SyntaxError")

\* a loop that gives the operator the whole rest of the chain as its right
\* operand
CppExpressionLoopRight(toks, pos, left) ==
    LET token == Cur(toks, pos) IN
    IF TypeIn(token, {"ARITHMETIC_OPERATOR", "RELATIONAL_OPERATOR"})
    THEN Then(CppParseExpression(toks, pos + 1), LAMBDA right :
         Parsed(Binary(token.value, left, right.node), right.pos))
    ELSE Parsed(left, pos)

\* the while loop of ExpressionParser.parse_expression
CppExpressionLoop(toks, pos, left) ==
    LET token == Cur(toks, pos) IN
    IF TypeIn(token, {"ARITHMETIC_OPERATOR", "RELATIONAL_OPERATOR"})
    THEN Then(CppParseTerm(toks, pos + 1), LAMBDA right :
         CppExpressionLoop(toks, right.pos, Binary(token.value, left, right.node)))
    ELSE Parsed(left, pos)

\* ExpressionParser.parse_expression
CppParseExpression(toks, pos) ==
    Then(CppParseTerm(toks, pos), LAMBDA left :
    CppExpressionLoop(toks, left.pos, left.node))

\* parse_expression, then match a token of type closing
CppExpressionThen(toks, pos, closing) ==
    Then(CppParseExpression(toks, pos), LAMBDA e :
    Then(Match(toks, e.pos, closing), LAMBDA m :
    Parsed(e.node, m.pos)))

\* StatementParser.parse_assignment
CppParseAssignment(toks, pos) ==
    Then(Match(toks, pos, "IDENTIFIER"), LAMBDA id :
    LET var_name == id.tok.value
        next_token == Cur(toks, id.pos)
    IN IF next_token.type = "ARITHMETIC_OPERATOR" /\ next_token.value = <<"=">>
       THEN Then(CppExpressionThen(toks, id.pos + 1, "SEMICOLON"), LAMBDA e :
            Parsed(Assignment(var_name, e.node), e.pos))
       ELSE IF next_token.type = "COMPOUND_ASSIGNMENT"
       THEN Then(CppExpressionThen(toks, id.pos + 1, "SEMICOLON"), LAMBDA e :
            Parsed(Assignment(var_name,
                       Binary(<<next_token.value[1]>>, Identifier(var_name), e.node)),
                   e.pos))
       ELSE Fail("SyntaxError"))

\* StatementParser.parse_expression_statement
CppParseExpressionStatement(toks, pos) ==
    Then(CppExpressionThen(toks, pos, "SEMICOLON"), LAMBDA e :
    Parsed([type |-> "EXPRESSION_STATEMENT", expression |-> e.node], e.pos))

\* StatementParser.parse_return_statement
CppParseReturnStatement(toks, pos) ==
    Then(Match(toks, pos, "KEYWORD"), LAMBDA k :
    Then(CppExpressionThen(toks, k.pos, "SEMICOLON"), LAMBDA e :
    Parsed([type |-> "RETURN_STATEMENT", expression |-> e.node], e.pos)))

\* StatementParser.parse_variable_declaration
CppParseVariableDeclaration(toks, pos) ==
    IF Cur(toks, pos) = None THEN Fail("TypeError")
    ELSE IF Cur(toks, pos).value \notin CppTypeWords THEN Fail("SyntaxError")
    ELSE
    Then(Match(toks, pos, "KEYWORD"), LAMBDA ty :
    Then(Match(toks, ty.pos, "IDENTIFIER"), LAMBDA id :
    LET token == Cur(toks, id.pos) IN
    IF token.type = "ARITHMETIC_OPERATOR" /\ token.value = <<"=">>
    THEN Then(CppExpressionThen(toks, id.pos + 1, "SEMICOLON"), LAMBDA e :
         Parsed([type |-> "VARIABLE_DECLARATION", var_type |-> ty.tok.value,
                 var_name |-> id.tok.value, initializer |-> e.node], e.pos))
    ELSE Then(Match(toks, id.pos, "SEMICOLON"), LAMBDA m :
         Parsed([type |-> "VARIABLE_DECLARATION", var_type |-> ty.tok.value,
                 var_name |-> id.tok.value], m.pos))))

\* the argument loop of StatementParser.parse_function_call
RECURSIVE CppArgumentLoop(_, _, _)
CppArgumentLoop(toks, pos, args) ==
    IF Cur(toks, pos).type = "COMMA"
    THEN Then(CppParseExpression(toks, pos + 1), LAMBDA e :
         CppArgumentLoop(toks, e.pos, Append(args, e.node)))
    ELSE [ok |-> TRUE, args |-> args, pos |-> pos]

\* StatementParser.parse_function_call
CppParseFunctionCall(toks, pos) ==
    Then(Match(toks, pos, "IDENTIFIER"), LAMBDA id :
    Then(Match(toks, id.pos, "LPAREN"), LAMBDA lp :
    IF Cur(toks, lp.pos) = None THEN Fail("TypeError")
    ELSE
    Then(IF Cur(toks, lp.pos).type # "RPAREN"
         THEN Then(CppParseExpression(toks, lp.pos), LAMBDA e :
              CppArgumentLoop(toks, e.pos, <<e.node>>))
         ELSE [ok |-> TRUE, args |-> <<>>, pos |-> lp.pos], LAMBDA a :
    Then(Match(toks, a.pos, "RPAREN"), LAMBDA rp :
    Then(Match(toks, rp.pos, "SEMICOLON"), LAMBDA semi :
    Parsed([type |-> "FUNCTION_CALL", func_name |-> id.tok.value, args |-> a.args],
           semi.pos))))))

\* the while loop of StatementParser.parse_io_statement
RECURSIVE CppIoLoop(_, _, _)
CppIoLoop(toks, pos, expressions) ==
    IF Cur(toks, pos).type = "INSERTION_OPERATOR"
    THEN IF Cur(toks, pos + 1) = None THEN Fail("TypeError")
         ELSE IF TypeIn(Cur(toks, pos + 1), {"STRING", "IDENTIFIER", "NUMBER", "LPAREN"})
         THEN Then(CppParseExpression(toks, pos + 1), LAMBDA e :
              CppIoLoop(toks, e.pos, Append(expressions, e.node)))
         ELSE Fail("SyntaxError")
    ELSE [ok |-> TRUE, expressions |-> expressions, pos |-> pos]

\* StatementParser.parse_io_statement
CppParseIoStatement(toks, pos) ==
    Then(Match(toks, pos, "IDENTIFIER"), LAMBDA id :
    Then(CppIoLoop(toks, id.pos, <<>>), LAMBDA io :
    Then(Match(toks, io.pos, "SEMICOLON"), LAMBDA semi :
    Parsed([type |-> "IO_STATEMENT", io_operator |-> id.tok.value,
            expressions |-> io.expressions], semi.pos))))

RECURSIVE CppParseStatement(_, _), CppBlockLoop(_, _, _), CppParseBlock(_, _),
          CppParseIfStatement(_, _), CppParseWhileLoop(_, _), CppParseForLoop(_, _),
          CppParseFunctionDefinition(_, _)

\* the while loop of StatementParser.parse_block
CppBlockLoop(toks, pos, statements) ==
    IF Cur(toks, pos) # None /\ Cur(toks, pos).type # "RBRACE"
    THEN Then(CppParseStatement(toks, pos), LAMBDA st :
         CppBlockLoop(toks, st.pos, Append(statements, st.node)))
    ELSE Parsed(Block(statements), pos)

\* StatementParser.parse_block
CppParseBlock(toks, pos) ==
    Then(Match(toks, pos, "LBRACE"), LAMBDA lb :
    Then(CppBlockLoop(toks, lb.pos, <<>>), LAMBDA b :
    Then(Match(toks, b.pos, "RBRACE"), LAMBDA rb :
    Parsed(b.node, rb.pos))))

\* StatementParser.parse_function_definition
CppParseFunctionDefinition(toks, pos) ==
    Then(Match(toks, pos, "KEYWORD"), LAMBDA ty :
    Then(Match(toks, ty.pos, "IDENTIFIER"), LAMBDA id :
    Then(Match(toks, id.pos, "LPAREN"), LAMBDA lp :
    Then(Match(toks, lp.pos, "RPAREN"), LAMBDA rp :
    Then(CppParseBlock(toks, rp.pos), LAMBDA body :
    Parsed([type |-> "FUNCTION_DEFINITION", return_type |-> ty.tok.value,
            func_name |-> id.tok.value, body |-> body.node.statements],
           body.pos))))))

\* StatementParser.parse_while_loop
CppParseWhileLoop(toks, pos) ==
    Then(Match(toks, pos, "KEYWORD"), LAMBDA k :
    Then(Match(toks, k.pos, "LPAREN"), LAMBDA lp :
    Then(CppExpressionThen(toks, lp.pos, "RPAREN"), LAMBDA c :
    Then(CppParseStatement(toks, c.pos), LAMBDA body :
    Parsed([type |-> "WHILE_LOOP", condition |-> c.node, body |-> body.node],
           body.pos)))))

\* parse_for_loop: the initialization, up to its semicolon
CppParseForInit(toks, pos) ==
    IF Cur(toks, pos) = None THEN Fail("TypeError")
    ELSE IF Cur(toks, pos).type = "KEYWORD"
    THEN Then(Match(toks, pos, "KEYWORD"), LAMBDA ty :
         Then(Match(toks, ty.pos, "IDENTIFIER"), LAMBDA id :
         Then(Match(toks, id.pos, "ARITHMETIC_OPERATOR"), LAMBDA eq :
         Then(CppExpressionThen(toks, eq.pos, "SEMICOLON"), LAMBDA e :
         Parsed([type |-> "VARIABLE_DECLARATION", var_type |-> ty.tok.value,
                 var_name |-> id.tok.value, initializer |-> e.node], e.pos)))))
    ELSE IF Cur(toks, pos).type = "IDENTIFIER"
    THEN Then(Match(toks, pos, "IDENTIFIER"), LAMBDA id :
         Then(Match(toks, id.pos, "ARITHMETIC_OPERATOR"), LAMBDA eq :
         Then(CppExpressionThen(toks, eq.pos, "SEMICOLON"), LAMBDA e :
         Parsed(Assignment(id.tok.value, e.node), e.pos))))
    ELSE Fail("SyntaxError")

\* parse_for_loop: the condition, up to its semicolon
CppParseForCondition(toks, pos) ==
    IF Cur(toks, pos) = None THEN Fail("TypeError")
    ELSE IF Cur(toks, pos).type # "SEMICOLON"
    THEN CppExpressionThen(toks, pos, "SEMICOLON")
    ELSE Parsed([type |-> "BOOLEAN_LITERAL", value |-> Txt("true")], pos + 1)

\* parse_for_loop: the increment, up to the closing parenthesis
CppParseForIncrement(toks, pos) ==
    IF Cur(toks, pos) = None THEN Fail("TypeError")
    ELSE
    Then(IF Cur(toks, pos).type # "RPAREN" /\ Cur(toks, pos).type = "IDENTIFIER"
         THEN LET inc_var == Cur(toks, pos).value
                  next_token == Cur(toks, pos + 1)
              IN IF next_token = None THEN Fail("TypeError")
                 ELSE IF next_token.type = "ARITHMETIC_OPERATOR"
                         /\ next_token.value \in IncOps
                 THEN Parsed([type |-> "INCREMENT", var_name |-> inc_var,
                              operator |-> next_token.value], pos + 2)
                 ELSE IF next_token.type = "ARITHMETIC_OPERATOR"
                         /\ next_token.value = <<"=">>
                 THEN Then(CppParseExpression(toks, pos + 2), LAMBDA e :
                      Parsed(Assignment(inc_var, e.node), e.pos))
                 ELSE IF next_token.type = "COMPOUND_ASSIGNMENT"
                 THEN Then(CppParseExpression(toks, pos + 2), LAMBDA e :
                      Parsed(Assignment(inc_var,
                                 Binary(<<next_token.value[1]>>, Identifier(inc_var),
                                        e.node)),
                             e.pos))
                 ELSE Fail("SyntaxError")
         ELSE Parsed(None, pos), LAMBDA inc :
    Then(Match(toks, inc.pos, "RPAREN"), LAMBDA rp :
    Parsed(inc.node, rp.pos)))

\* StatementParser.parse_for_loop
CppParseForLoop(toks, pos) ==
    Then(Match(toks, pos, "KEYWORD"), LAMBDA k :
    Then(Match(toks, k.pos, "LPAREN"), LAMBDA lp :
    Then(CppParseForInit(toks, lp.pos), LAMBDA init :
    Then(CppParseForCondition(toks, init.pos), LAMBDA condition :
    Then(CppParseForIncrement(toks, condition.pos), LAMBDA increment :
    Then(CppParseStatement(toks, increment.pos), LAMBDA body :
    Parsed([type |-> "FOR_LOOP", init |-> init.node, condition |-> condition.node,
            increment |-> increment.node, body |-> body.node], body.pos)))))))

\* StatementParser.parse_if_statement
CppParseIfStatement(toks, pos) ==
    Then(Match(toks, pos, "KEYWORD"), LAMBDA k :
    Then(Match(toks, k.pos, "LPAREN"), LAMBDA lp :
    Then(CppExpressionThen(toks, lp.pos, "RPAREN"), LAMBDA c :
    Then(CppParseStatement(toks, c.pos), LAMBDA tb :
    IF Cur(toks, tb.pos) # None /\ Cur(toks, tb.pos).value = Txt("else")
    THEN Then(Match(toks, tb.pos, "KEYWORD"), LAMBDA el :
         Then(IF Cur(toks, el.pos).type = "KEYWORD"
                 /\ Cur(toks, el.pos).value = Txt("if")
              THEN CppParseIfStatement(toks, el.pos)
              ELSE CppParseStatement(toks, el.pos), LAMBDA fb :
         Parsed(IfNode(c.node, tb.node, fb.node), fb.pos)))
    ELSE Parsed(IfNode(c.node, tb.node, None), tb.pos)))))

\* the lookahead shared by parse_statement and is_function_definition:
\* an identifier and a left parenthesis follow the token at pos
IdentifierAndParenFollow(toks, pos) ==
    Cur(toks, pos + 1).type = "IDENTIFIER" /\ Cur(toks, pos + 2).type = "LPAREN"

\* StatementParser.parse_statement
CppParseStatement(toks, pos) ==
    LET token == Cur(toks, pos)
        next_token == Cur(toks, pos + 1)
    IN
    IF token = None THEN Fail("SyntaxError")
    ELSE IF token.type = "KEYWORD"
    THEN IF token.value = Txt("if") THEN CppParseIfStatement(toks, pos)
         ELSE IF token.value = Txt("while") THEN CppParseWhileLoop(toks, pos)
         ELSE IF token.value = Txt("for") THEN CppParseForLoop(toks, pos)
         ELSE IF token.value = Txt("return") THEN CppParseReturnStatement(toks, pos)
         ELSE IF token.value \in CppTypeWords
         THEN IF next_token.type = "IDENTIFIER"
              THEN IF Cur(toks, pos + 2).type = "LPAREN"
                   THEN CppParseFunctionDefinition(toks, pos)
                   ELSE CppParseVariableDeclaration(toks, pos)
              ELSE Fail("SyntaxError")
         ELSE Fail("SyntaxError")
    ELSE IF token.type = "IDENTIFIER"
    THEN IF next_token.type = "LPAREN" THEN CppParseFunctionCall(toks, pos)
         ELSE IF next_token.type = "ARITHMETIC_OPERATOR" /\ next_token.value \in IncOps
         THEN CppParseExpressionStatement(toks, pos)
         ELSE IF TypeIn(next_token, {"ARITHMETIC_OPERATOR", "COMPOUND_ASSIGNMENT"})
                 /\ next_token.value \notin IncOps
         THEN CppParseAssignment(toks, pos)
         ELSE IF token.value \in {Txt("cout"), Txt("cin")}
         THEN CppParseIoStatement(toks, pos)
         ELSE CppParseExpressionStatement(toks, pos)
    ELSE IF token.type = "NUMBER" THEN CppParseExpressionStatement(toks, pos)
    ELSE IF token.type = "LBRACE" THEN CppParseBlock(toks, pos)
    ELSE IF token.type = "SEMICOLON" THEN Parsed([type |-> "EMPTY_STATEMENT"], pos + 1)
    ELSE Fail("SyntaxError")

\* Parser.is_function_definition
CppIsFunctionDefinition(toks, pos) ==
    /\ Cur(toks, pos).type = "KEYWORD"
    /\ Cur(toks, pos).value \in {Txt("int"), Txt("float"), Txt("void")}
    /\ IdentifierAndParenFollow(toks, pos)

\* the while loop of Parser.parse_program
RECURSIVE CppProgramLoop(_, _, _)
CppProgramLoop(toks, pos, statements) ==
    IF Cur(toks, pos) # None
    THEN Then(IF CppIsFunctionDefinition(toks, pos)
              THEN CppParseFunctionDefinition(toks, pos)
              ELSE CppParseStatement(toks, pos), LAMBDA st :
         CppProgramLoop(toks, st.pos, Append(statements, st.node)))
    ELSE Parsed([type |-> "PROGRAM", statements |-> statements], pos)

\* Parser.parse_program, on the tokens of a fresh Parser
CppParseProgram(toks) == CppProgramLoop(toks, 0, <<>>)

-----------------------------------------------------------------------------
(* python_parser.py                                                        *)

RECURSIVE PyParseExpression(_, _), PyParseTerm(_, _), PyExpressionLoop(_, _, _),
          PyParseArguments(_, _, _)

\* parse_arguments (of StatementParser and of ExpressionParser alike) and the
\* argument loop of parse_print_statement: expressions up to a right
\* parenthesis, a comma after an expression being skipped
PyParseArguments(toks, pos, args) ==
    IF Cur(toks, pos) # None /\ Cur(toks, pos).type # "RPAREN"
    THEN Then(PyParseExpression(toks, pos), LAMBDA e :
         PyParseArguments(toks,
                          IF Cur(toks, e.pos).type = "COMMA" THEN e.pos + 1 ELSE e.pos,
                          Append(args, e.node)))
    ELSE [ok |-> TRUE, args |-> args, pos |-> pos]

\* ExpressionParser.parse_term
PyParseTerm(toks, pos) ==
    LET token == Cur(toks, pos) IN
    IF token = None THEN Fail("SyntaxError")
    ELSE IF token.type = "NUMBER" THEN Parsed(Number(token.value), pos + 1)
    ELSE IF token.type = "STRING"
         THEN Parsed([type |-> "STRING_LITERAL", value |-> token.value], pos + 1)
    ELSE IF TypeIn(token, {"IDENTIFIER", "KEYWORD"})
         THEN IF Cur(toks, pos + 1).type = "LPAREN"
              THEN Then(PyParseArguments(toks, pos + 2, <<>>), LAMBDA a :
                   Then(Match(toks, a.pos, "RPAREN"), LAMBDA rp :
                   Parsed([type |-> "FUNCTION_CALL", func_name |-> token.value,
                           args |-> a.args], rp.pos)))
              ELSE IF token.type = "IDENTIFIER"
              THEN Parsed(Identifier(token.value), pos + 1)
              ELSE Fail("SyntaxError")
    ELSE IF token.type = "LPAREN"
         THEN Then(PyParseExpression(toks, pos + 1), LAMBDA e :
              Then(Match(toks, e.pos, "RPAREN"), LAMBDA m :
              Parsed(e.node, m.pos)))
    ELSE Fail("SyntaxError")

\* the while loop of ExpressionParser.parse_expression
PyExpressionLoop(toks, pos, left) ==
    LET token == Cur(toks, pos) IN
    IF TypeIn(token, {"ARITHMETIC_OPERATOR", "RELATIONAL_OPERATOR", "COMPARISON_OPERATOR"})
    THEN Then(PyParseTerm(toks, pos + 1), LAMBDA right :
         PyExpressionLoop(toks, right.pos, Binary(token.value, left, right.node)))
    ELSE Parsed(left, pos)

\* ExpressionParser.parse_expression
PyParseExpression(toks, pos) ==
    Then(PyParseTerm(toks, pos), LAMBDA left :
    PyExpressionLoop(toks, left.pos, left.node))

\* parse_expression, then match a token of type closing
PyExpressionThen(toks, pos, closing) ==
    Then(PyParseExpression(toks, pos), LAMBDA e :
    Then(Match(toks, e.pos, closing), LAMBDA m :
    Parsed(e.node, m.pos)))

\* "if the current token is a semicolon, match it"
SkipSemicolon(toks, pos) == IF Cur(toks, pos).type = "SEMICOLON" THEN pos + 1 ELSE pos

\* StatementParser.parse_assignment
PyParseAssignment(toks, pos) ==
    Then(Match(toks, pos, "IDENTIFIER"), LAMBDA id :
    LET var_name == id.tok.value
        next_token == Cur(toks, id.pos)
    IN IF next_token = None THEN Fail("TypeError")
       ELSE IF next_token.type = "ASSIGNMENT_OPERATOR"
       THEN Then(PyParseExpression(toks, id.pos + 1), LAMBDA e :
            Parsed(Assignment(var_name, e.node), SkipSemicolon(toks, e.pos)))
       ELSE IF next_token.type = "ARITHMETIC_OPERATOR"
       THEN Then(Match(toks, id.pos + 1, "ASSIGNMENT_OPERATOR"), LAMBDA eq :
            Then(PyParseExpression(toks, eq.pos), LAMBDA right :
            Parsed(Assignment(var_name,
                       Binary(next_token.value, Identifier(var_name), right.node)),
                   SkipSemicolon(toks, right.pos))))
       ELSE Fail("SyntaxError"))

\* StatementParser.parse_function_call
PyParseFunctionCall(toks, pos) ==
    Then(Match(toks, pos, "IDENTIFIER"), LAMBDA id :
    Then(Match(toks, id.pos, "LPAREN"), LAMBDA lp :
    Then(PyParseArguments(toks, lp.pos, <<>>), LAMBDA a :
    Then(Match(toks, a.pos, "RPAREN"), LAMBDA rp :
    Parsed([type |-> "FUNCTION_CALL", func_name |-> id.tok.value, args |-> a.args],
           SkipSemicolon(toks, rp.pos))))))

\* StatementParser.parse_print_statement
PyParsePrintStatement(toks, pos) ==
    Then(Match(toks, pos, "KEYWORD"), LAMBDA k :
    Then(Match(toks, k.pos, "LPAREN"), LAMBDA lp :
    Then(PyParseArguments(toks, lp.pos, <<>>), LAMBDA a :
    Then(Match(toks, a.pos, "RPAREN"), LAMBDA rp :
    Parsed([type |-> "PRINT_STATEMENT", args |-> a.args], rp.pos)))))

\* StatementParser.parse_variable_declaration
PyParseVariableDeclaration(toks, pos) ==
    Then(Match(toks, pos, "KEYWORD"), LAMBDA ty :
    Then(Match(toks, ty.pos, "IDENTIFIER"), LAMBDA id :
    IF Cur(toks, id.pos).type = "ASSIGNMENT_OPERATOR"
    THEN Then(PyParseExpression(toks, id.pos + 1), LAMBDA e :
         Parsed([type |-> "VARIABLE_DECLARATION", var_type |-> ty.tok.value,
                 var_name |-> id.tok.value, initializer |-> e.node],
                SkipSemicolon(toks, e.pos)))
    ELSE Parsed([type |-> "VARIABLE_DECLARATION", var_type |-> ty.tok.value,
                 var_name |-> id.tok.value], SkipSemicolon(toks, id.pos))))

\* StatementParser.parse_io_statement
PyParseIoStatement(toks, pos) ==
    Then(Match(toks, pos, "IDENTIFIER"), LAMBDA id :
    IF Cur(toks, id.pos).type = "INSERTION_OPERATOR"
    THEN Then(PyExpressionThen(toks, id.pos + 1, "SEMICOLON"), LAMBDA e :
         Parsed([type |-> "IO_STATEMENT", io_operator |-> id.tok.value,
                 expression |-> e.node], e.pos))
    ELSE Fail("SyntaxError"))

RECURSIVE PyParseStatement(_, _), PyBlockLoop(_, _, _), PyParseBlock(_, _),
          PyParseIfStatement(_, _), PyParseWhileLoop(_, _), PyWhileBody(_, _, _),
          PyParseForLoop(_, _), PyParseFunctionDefinition(_, _), PyElifChain(_, _)

\* the while loop of StatementParser.parse_block
PyBlockLoop(toks, pos, statements) ==
    IF Cur(toks, pos) # None /\ Cur(toks, pos).type # "RBRACE"
    THEN Then(PyParseStatement(toks, pos), LAMBDA st :
         PyBlockLoop(toks, st.pos, Append(statements, st.node)))
    ELSE Parsed(Block(statements), pos)

\* StatementParser.parse_block
PyParseBlock(toks, pos) ==
    Then(Match(toks, pos, "LBRACE"), LAMBDA lb :
    Then(PyBlockLoop(toks, lb.pos, <<>>), LAMBDA b :
    Then(Match(toks, b.pos, "RBRACE"), LAMBDA rb :
    Parsed(b.node, rb.pos))))

\* StatementParser.parse_function_definition
PyParseFunctionDefinition(toks, pos) ==
    Then(Match(toks, pos, "KEYWORD"), LAMBDA ty :
    Then(Match(toks, ty.pos, "IDENTIFIER"), LAMBDA id :
    Then(Match(toks, id.pos, "LPAREN"), LAMBDA lp :
    Then(Match(toks, lp.pos, "RPAREN"), LAMBDA rp :
    Then(PyParseBlock(toks, rp.pos), LAMBDA body :
    Parsed([type |-> "FUNCTION_DEFINITION", return_type |-> ty.tok.value,
            func_name |-> id.tok.value, body |-> body.node.statements],
           body.pos))))))

\* parse_for_loop: the arguments of range, one to three expressions
PyParseRange(toks, pos) ==
    Then(PyParseExpression(toks, pos), LAMBDA start :
    IF Cur(toks, start.pos).type = "COMMA"
    THEN Then(PyParseExpression(toks, start.pos + 1), LAMBDA stop :
         IF Cur(toks, stop.pos).type = "COMMA"
         THEN Then(PyParseExpression(toks, stop.pos + 1), LAMBDA step :
              [ok |-> TRUE, pos |-> step.pos,
               range |-> [start |-> start.node, stop |-> stop.node, step |-> step.node]])
         ELSE [ok |-> TRUE, pos |-> stop.pos,
               range |-> [start |-> start.node, stop |-> stop.node]])
    ELSE [ok |-> TRUE, pos |-> start.pos, range |-> [limit |-> start.node]])

\* StatementParser.parse_for_loop
PyParseForLoop(toks, pos) ==
    Then(Match(toks, pos, "KEYWORD"), LAMBDA k :
    Then(Match(toks, k.pos, "IDENTIFIER"), LAMBDA iterator :
    Then(Match(toks, iterator.pos, "IDENTIFIER"), LAMBDA in :
    Then(Match(toks, in.pos, "IDENTIFIER"), LAMBDA range_token :
    IF range_token.tok.value # Txt("range") THEN Fail("SyntaxError")
    ELSE
    Then(Match(toks, range_token.pos, "LPAREN"), LAMBDA lp :
    Then(PyParseRange(toks, lp.pos), LAMBDA r :
    Then(Match(toks, r.pos, "RPAREN"), LAMBDA rp :
    Then(Match(toks, rp.pos, "COLON"), LAMBDA colon :
    Then(PyParseStatement(toks, colon.pos), LAMBDA body :
    Parsed([type |-> "FOR_LOOP", iterator |-> iterator.tok.value] @@ r.range
               @@ [body |-> <<body.node>>],
           body.pos))))))))))

\* the body loop of StatementParser.parse_while_loop
PyWhileBody(toks, pos, body) ==
    IF Cur(toks, pos) # None /\ Cur(toks, pos).value \notin {Txt("while"), Txt("for")}
    THEN Then(PyParseStatement(toks, pos), LAMBDA st :
         PyWhileBody(toks, st.pos, Append(body, st.node)))
    ELSE [ok |-> TRUE, body |-> body, pos |-> pos]

\* StatementParser.parse_while_loop
PyParseWhileLoop(toks, pos) ==
    Then(Match(toks, pos, "KEYWORD"), LAMBDA k :
    Then(PyExpressionThen(toks, k.pos, "COLON"), LAMBDA c :
    Then(PyWhileBody(toks, c.pos, <<>>), LAMBDA b :
    Parsed([type |-> "WHILE_LOOP", condition |-> c.node, body |-> b.body], b.pos))))

\* the one-statement body of an if, elif or else header, as a BLOCK; the
\* body is empty at the end of the input
PyBranchBody(toks, pos) ==
    IF Cur(toks, pos) # None
    THEN Then(PyParseStatement(toks, pos), LAMBDA st :
         Parsed(Block(<<st.node>>), st.pos))
    ELSE Parsed(Block(<<>>), pos)

\* the while loop of parse_if_statement over elif and else: the node it
\* leaves in the false_branch slot of the node before. Each elif node is
\* linked into the false_branch of the previous one (current_node); an else
\* block ends the loop.
PyElifChain(toks, pos) ==
    LET token == Cur(toks, pos) IN
    IF token # None /\ token.value = Txt("elif")
    THEN Then(Match(toks, pos, "KEYWORD"), LAMBDA k :
         Then(PyExpressionThen(toks, k.pos, "COLON"), LAMBDA c :
         Then(PyBranchBody(toks, c.pos), LAMBDA b :
         Then(PyElifChain(toks, b.pos), LAMBDA rest :
         Parsed(IfNode(c.node, b.node, rest.node), rest.pos)))))
    ELSE IF token # None /\ token.value = Txt("else")
    THEN Then(Match(toks, pos, "KEYWORD"), LAMBDA k :
         Then(Match(toks, k.pos, "COLON"), LAMBDA colon :
         PyBranchBody(toks, colon.pos)))
    ELSE Parsed(None, pos)

\* StatementParser.parse_if_statement
PyParseIfStatement(toks, pos) ==
    Then(Match(toks, pos, "KEYWORD"), LAMBDA k :
    Then(PyExpressionThen(toks, k.pos, "COLON"), LAMBDA c :
    Then(PyBranchBody(toks, c.pos), LAMBDA tb :
    Then(PyElifChain(toks, tb.pos), LAMBDA fb :
    Parsed(IfNode(c.node, tb.node, fb.node), fb.pos)))))

\* the second disjunct of the assignment lookahead of parse_statement: an
\* arithmetic operator follows, and an assignment operator follows it
CompoundFollows(toks, pos) ==
    /\ Cur(toks, pos + 1).type = "ARITHMETIC_OPERATOR"
    /\ pos + 2 < Len(toks)
    /\ Cur(toks, pos + 2).type = "ASSIGNMENT_OPERATOR"

\* StatementParser.parse_statement
PyParseStatement(toks, pos) ==
    LET token == Cur(toks, pos)
        next_token == Cur(toks, pos + 1)
    IN
    IF token = None THEN Fail("SyntaxError")
    ELSE IF token.type = "KEYWORD"
    THEN IF token.value = Txt("print") THEN PyParsePrintStatement(toks, pos)
         ELSE IF token.value = Txt("if") THEN PyParseIfStatement(toks, pos)
         ELSE IF token.value = Txt("while") THEN PyParseWhileLoop(toks, pos)
         ELSE IF token.value = Txt("return") THEN Fail("NotImplementedError")
         ELSE IF token.value = Txt("for") THEN PyParseForLoop(toks, pos)
         ELSE IF token.value \in {Txt("int"), Txt("float"), Txt("void")}
         THEN IF next_token.type = "IDENTIFIER"
              THEN IF Cur(toks, pos + 2).type = "LPAREN"
                   THEN PyParseFunctionDefinition(toks, pos)
                   ELSE PyParseVariableDeclaration(toks, pos)
              ELSE Fail("SyntaxError")
         ELSE Fail("SyntaxError")
    ELSE IF token.type = "IDENTIFIER"
    THEN IF next_token.type = "LPAREN" THEN PyParseFunctionCall(toks, pos)
         ELSE IF next_token.type = "ASSIGNMENT_OPERATOR" \/ CompoundFollows(toks, pos)
         THEN PyParseAssignment(toks, pos)
         ELSE IF token.value \in {Txt("cout"), Txt("cin")}
         THEN PyParseIoStatement(toks, pos)
         ELSE Fail("SyntaxError")
    ELSE IF token.type = "LBRACE" THEN PyParseBlock(toks, pos)
    ELSE Fail("SyntaxError")

\* the while loop of PythonParser.parse_program; is_function_definition is
\* that of parsercpp.py
RECURSIVE PyProgramLoop(_, _, _)
PyProgramLoop(toks, pos, statements) ==
    IF Cur(toks, pos) # None
    THEN Then(IF CppIsFunctionDefinition(toks, pos)
              THEN PyParseFunctionDefinition(toks, pos)
              ELSE PyParseStatement(toks, pos), LAMBDA st :
         PyProgramLoop(toks, st.pos, Append(statements, st.node)))
    ELSE Parsed([type |-> "PROGRAM", statements |-> statements], pos)

\* PythonParser.parse_program, on the tokens of a fresh PythonParser
PyParseProgram(toks) == PyProgramLoop(toks, 0, <<>>)

-----------------------------------------------------------------------------
(* semantic_analyzer_cpp.py                                                *)
(*                                                                         *)
(* A frame of the scope stack is a Python dict: here the sequence of its   *)
(* [name, value] entries in insertion order. A declared type (a Python     *)
(* str) is the record TypeName(t), a function entry the record             *)
(* FunctionInfo(t), so that the two and None compare as Python compares    *)
(* them. A diagnostic is its message template, its level (the prefix       *)
(* "Error:" or "Warning:" of the message, "" when it has neither) and the  *)
(* texts formatted into it; the context phrase of a message is left out.   *)

TypeName(t) == [type |-> "str", value |-> t]
FunctionInfo(return_type) == [type |-> "function", return_type |-> return_type]

Diagnostic(level, text, args) == [level |-> level, text |-> text, args |-> args]

\* str() of a type as an f-string formats it
Repr(v) ==
    IF v = None THEN Txt("None")
    ELSE IF v.type = "str" THEN v.value
    ELSE Txt("{'type': 'function', 'params': {}, 'return_type': '")
             \o v.return_type \o Txt("'}")

\* var_name in scope
InFrame(frame, var_name) == \E k \in 1..Len(frame) : frame[k].name = var_name

\* scope[var_name]
FrameGet(frame, var_name) ==
    frame[CHOOSE k \in 1..Len(frame) : frame[k].name = var_name].value

\* scope[var_name] = value, of a name the frame does not hold
FrameSet(frame, var_name, value) == Append(frame, [name |-> var_name, value |-> value])

\* SemanticAnalyzer.lookup_variable
RECURSIVE LookupFrom(_, _, _)
LookupFrom(stack, k, var_name) ==
    IF k = 0 THEN None
    ELSE IF InFrame(stack[k], var_name) THEN FrameGet(stack[k], var_name)
    ELSE LookupFrom(stack, k - 1, var_name)

lookup_variable(stack, var_name) == LookupFrom(stack, Len(stack), var_name)

\* SemanticAnalyzer.enter_scope, exit_scope
enter_scope(stack) == Append(stack, <<>>)
\* an exit_scope that pops nothing
exit_scope_kept(stack) == stack

exit_scope(stack) == SubSeq(stack, 1, Len(stack) - 1)

\* SemanticAnalyzer.declare_variable: the stack and the error list after it
declare_variable(stack, var_name, var_type, errs, is_member) ==
    LET scope == stack[Len(stack)] IN
    IF InFrame(scope, var_name)
    THEN [stack |-> stack,
          errors |-> Append(errs, Diagnostic("Error",
                        "Variable '{}' already declared in this scope.", <<var_name>>))]
    ELSE IF lookup_variable(stack, var_name) # None /\ ~is_member
    THEN [stack |-> stack,
          errors |-> Append(errs, Diagnostic("Warning",
                        "Variable '{}' shadows a declaration in an outer scope.",
                        <<var_name>>))]
    ELSE [stack |-> [stack EXCEPT ![Len(stack)] = FrameSet(scope, var_name, var_type)],
          errors |-> errs]

\* SemanticAnalyzer._is_type_compatible
is_type_compatible(declared_type, expr_type) ==
    LET numeric == {TypeName(Txt("int")), TypeName(Txt("float"))} IN
    \/ declared_type = expr_type
    \/ declared_type \in numeric /\ expr_type \in numeric

\* "var_type not in ['int', 'float']"
NonNumeric(var_type) == var_type \notin {TypeName(Txt("int")), TypeName(Txt("float"))}

\* the result of evaluate_expression_type: the type, the diagnostics it
\* appended, and whether it raised instead of returning
Typed(t, appended) == [type |-> t, errors |-> appended, raised |-> FALSE]
Raised == [type |-> None, errors |-> <<>>, raised |-> TRUE]

ComparisonOps == {<<">">>, <<"<">>, <<">", "=">>, <<"<", "=">>, <<"=", "=">>, <<"!", "=">>}

\* evaluate_expression_type of a call, func_info being what the name is
\* bound to: the subscript 'return_type' of a declared type, a str, raises
CallType(func_name, func_info) ==
    IF func_info # None /\ func_info.type = "str" THEN Raised
    ELSE IF func_info # None
    THEN Typed(TypeName(func_info.return_type), <<>>)
    ELSE Typed(None, <<Diagnostic("Error", "Function '{}' not declared in {context}.",
                                  <<func_name>>)>>)

\* evaluate_expression_type of a binary expression, l and r being the
\* results of its operands
BinaryType(operator, l, r) ==
    IF l.raised \/ r.raised THEN Raised
    ELSE IF operator \in ComparisonOps
    THEN IF l.type # None /\ r.type # None
         THEN IF l.type = r.type THEN Typed(TypeName(Txt("bool")), l.errors \o r.errors)
              ELSE Typed(None, Append(l.errors \o r.errors, Diagnostic("Error",
                       "Type mismatch in {context} for operator '{}'. Cannot compare '{}' with '{}'.",
                       <<operator, Repr(l.type), Repr(r.type)>>)))
         ELSE Typed(None, l.errors \o r.errors)
    ELSE IF l.type = TypeName(Txt("float")) \/ r.type = TypeName(Txt("float"))
         THEN Typed(TypeName(Txt("float")), l.errors \o r.errors)
         ELSE IF l.type = TypeName(Txt("int")) /\ r.type = TypeName(Txt("int"))
         THEN Typed(TypeName(Txt("int")), l.errors \o r.errors)
         ELSE Typed(None, Append(l.errors \o r.errors, Diagnostic("Error",
                  "Invalid types '{}' and '{}' for operator '{}' in {context}.",
                  <<Repr(l.type), Repr(r.type), operator>>)))

\* SemanticAnalyzer.evaluate_expression_type
RECURSIVE evaluate_expression_type(_, _)
evaluate_expression_type(expression, stack) ==
    IF expression = None THEN Raised
    ELSE IF expression.type = "NUMBER" THEN Typed(TypeName(Txt("int")), <<>>)
    ELSE IF expression.type = "IDENTIFIER"
    THEN LET var_type == lookup_variable(stack, expression.value) IN
         Typed(var_type,
               IF var_type = None
               THEN <<Diagnostic("Error", "Variable '{}' not declared in {context}.",
                                 <<expression.value>>)>>
               ELSE <<>>)
    ELSE IF expression.type = "BINARY_EXPRESSION"
    THEN BinaryType(expression.operator,
                    evaluate_expression_type(expression.left, stack),
                    evaluate_expression_type(expression.right, stack))
    ELSE IF expression.type = "STRING_LITERAL" THEN Typed(TypeName(Txt("string")), <<>>)
    ELSE IF expression.type = "FUNCTION_CALL"
    THEN CallType(expression.func_name, lookup_variable(stack, expression.func_name))
    ELSE IF expression.type = "BOOLEAN_LITERAL" THEN Typed(TypeName(Txt("bool")), <<>>)
    ELSE Typed(None, <<Diagnostic("Error", "Unsupported expression type '{}' in {context}.",
                                  <<Txt(expression.type)>>)>>)

\* what a handler of analyze_statement leaves: the scope stack, the error
\* list, the statements it goes on to analyze (and the scope exits that
\* follow them), and whether it raised instead
Analyzed(stack, errs, push) ==
    [stack |-> stack, errors |-> errs, push |-> push, raised |-> FALSE]
AnalyzerRaised(stack, errs) ==
    [stack |-> stack, errors |-> errs, push |-> <<>>, raised |-> TRUE]

ExitScope == [type |-> "exit_scope"]

\* the non-numeric increment check shared by analyze_increment,
\* analyze_expression_statement and analyze_for_loop; text is the message of
\* an undeclared variable
IncrementCheck(stack, var_name, errs, text) ==
    LET var_type == lookup_variable(stack, var_name) IN
    IF var_type = None THEN Append(errs, Diagnostic("Error", text, <<var_name>>))
    ELSE IF NonNumeric(var_type)
    THEN Append(errs, Diagnostic("Warning",
             "Increment operation on non-numeric type '{}' for variable '{}'.",
             <<Repr(var_type), var_name>>))
    ELSE errs

\* a declaration that binds the name in the innermost frame whether or not
\* the name is bound already, and reports nothing
DeclaredOverwriting(stack, var_name, var_type, errs) ==
    [stack |-> [stack EXCEPT ![Len(stack)] =
                   IF InFrame(@, var_name)
                   THEN [k \in 1..Len(@) |->
                            IF @[k].name = var_name
                            THEN [name |-> var_name, value |-> var_type] ELSE @[k]]
                   ELSE FrameSet(@, var_name, var_type)],
     errors |-> errs]

\* _analyze_variable_declaration: the lookup of the name and declare_variable
Declared(stack, var_name, var_type, errs) ==
    IF lookup_variable(stack, var_name) # None
    THEN [stack |-> stack,
          errors |-> Append(errs, Diagnostic("Error",
                        "Variable '{}' already declared.", <<var_name>>))]
    ELSE declare_variable(stack, var_name, var_type, errs, FALSE)

\* _analyze_variable_declaration: the check of the initializer, init being
\* the result of evaluate_expression_type on it
InitializerCheck(var_name, var_type, declared, init) ==
    IF init.raised THEN AnalyzerRaised(declared.stack, declared.errors)
    ELSE IF init.type # None /\ ~is_type_compatible(var_type, init.type)
    THEN Analyzed(declared.stack, Append(declared.errors \o init.errors,
             Diagnostic("Error",
                 "Type mismatch in variable declaration: '{}' declared as '{}' but initialized with type '{}'.",
                 <<var_name, Repr(var_type), Repr(init.type)>>)), <<>>)
    ELSE Analyzed(declared.stack, declared.errors \o init.errors, <<>>)

DeclarationInitializer(declaration, declared) ==
    IF "initializer" \in DOMAIN declaration
    THEN InitializerCheck(declaration.var_name, TypeName(declaration.var_type), declared,
             evaluate_expression_type(declaration.initializer, declared.stack))
    ELSE Analyzed(declared.stack, declared.errors, <<>>)

\* SemanticAnalyzer._analyze_variable_declaration
analyze_variable_declaration(declaration, stack, errs) ==
    DeclarationInitializer(declaration,
        Declared(stack, declaration.var_name, TypeName(declaration.var_type), errs))

\* check_assignment: the check of the assigned expression, var_type being
\* the declared type of the target and e the result of
\* evaluate_expression_type on the expression
AssignedCheck(var_name, var_type, stack, errs, e) ==
    IF e.raised THEN AnalyzerRaised(stack, errs)
    ELSE IF e.type # None /\ var_type # e.type
    THEN Analyzed(stack, Append(errs \o e.errors, Diagnostic("Error",
             "Type mismatch in assignment to '{}'. Expected {}, got {}.",
             <<var_name, Repr(var_type), Repr(e.type)>>)), <<>>)
    ELSE Analyzed(stack, errs \o e.errors, <<>>)

AssignmentTarget(statement, var_type, stack, errs) ==
    IF var_type = None
    THEN Analyzed(stack, Append(errs, Diagnostic("Error",
             "Variable '{}' not declared.", <<statement.var_name>>)), <<>>)
    ELSE AssignedCheck(statement.var_name, var_type, stack, errs,
             evaluate_expression_type(statement.expression, stack))

\* SemanticAnalyzer.check_assignment
check_assignment(statement, stack, errs) ==
    AssignmentTarget(statement, lookup_variable(stack, statement.var_name), stack, errs)

\* SemanticAnalyzer.analyze_block: the statements of the block are analyzed
\* in a scope of their own
analyze_block(statements, stack, errs) ==
    Analyzed(enter_scope(stack), errs, Append(statements, ExitScope))

\* SemanticAnalyzer.analyze_function, of a definition without parameters
\* (the parser builds no other): the body, a list, is analyzed as a block
\* inside the scope of the function
FunctionBody(function, bound) ==
    Analyzed(enter_scope(enter_scope(bound.stack)), bound.errors,
             Append(Append(function.body, ExitScope), ExitScope))

analyze_function(function, stack, errs) ==
    FunctionBody(function,
        IF InFrame(stack[1], function.func_name)
        THEN [stack |-> stack,
              errors |-> Append(errs, Diagnostic("Error",
                            "Function '{}' already declared.", <<function.func_name>>))]
        ELSE [stack |-> [stack EXCEPT ![1] = FrameSet(stack[1], function.func_name,
                             FunctionInfo(function.return_type))],
              errors |-> errs])

\* the condition of an if statement or a while loop, which must be 'bool';
\* c is the result of evaluate_expression_type on it
ConditionTyped(c, errs, text) ==
    [raised |-> c.raised,
     errors |-> IF c.type # TypeName(Txt("bool"))
                THEN Append(errs \o c.errors, Diagnostic("Error", text, <<Repr(c.type)>>))
                ELSE errs \o c.errors]

ConditionCheck(condition, stack, errs, text) ==
    ConditionTyped(evaluate_expression_type(condition, stack), errs, text)

IfBranches(statement, stack, errs, c) ==
    IF c.raised THEN AnalyzerRaised(stack, errs)
    ELSE Analyzed(stack, c.errors,
                  IF statement.false_branch # None
                  THEN <<statement.true_branch, statement.false_branch>>
                  ELSE <<statement.true_branch>>)

\* SemanticAnalyzer.analyze_if_statement
analyze_if_statement(statement, stack, errs) ==
    IfBranches(statement, stack, errs,
        ConditionCheck(statement.condition, stack, errs,
            "Condition in if statement must be of type 'bool', got {}."))

WhileBody(while_loop, stack, errs, c) ==
    IF c.raised THEN AnalyzerRaised(stack, errs)
    ELSE IF while_loop.body # None THEN Analyzed(stack, c.errors, <<while_loop.body>>)
    ELSE Analyzed(stack, Append(c.errors,
             Diagnostic("Error", "While loop body is None.", <<>>)), <<>>)

\* SemanticAnalyzer.analyze_while_loop
analyze_while_loop(while_loop, stack, errs) ==
    WhileBody(while_loop, stack, errs,
        ConditionCheck(while_loop.condition, stack, errs,
            "Condition in while loop must be of type 'bool', got {}."))

ReturnTyped(stack, errs, e) ==
    IF e.raised THEN AnalyzerRaised(stack, errs)
    ELSE IF e.type = None
    THEN Analyzed(stack, Append(errs \o e.errors,
             Diagnostic("Error", "Invalid expression in return statement.", <<>>)), <<>>)
    ELSE Analyzed(stack, errs \o e.errors, <<>>)

\* SemanticAnalyzer.analyze_return_statement
analyze_return_statement(statement, stack, errs) ==
    ReturnTyped(stack, errs, evaluate_expression_type(statement.expression, stack))

\* the for loop of SemanticAnalyzer.analyze_io_statement, from expression k
RECURSIVE IoExpressions(_, _, _, _)
IoTyped(expressions, k, stack, errs, e) ==
    IF e.raised THEN AnalyzerRaised(stack, errs)
    ELSE IoExpressions(expressions, k + 1, stack,
             IF e.type = None
             THEN Append(errs \o e.errors, Diagnostic("Error",
                      "Invalid expression in I/O statement.", <<>>))
             ELSE errs \o e.errors)

IoExpressions(expressions, k, stack, errs) ==
    IF k > Len(expressions) THEN Analyzed(stack, errs, <<>>)
    ELSE IoTyped(expressions, k, stack, errs,
                 evaluate_expression_type(expressions[k], stack))

ExpressionTyped(stack, errs, e) ==
    IF e.raised THEN AnalyzerRaised(stack, errs)
    ELSE Analyzed(stack, errs \o e.errors, <<>>)

\* SemanticAnalyzer.analyze_expression_statement
analyze_expression_statement(statement, stack, errs) ==
    IF statement.expression.type = "INCREMENT"
    THEN Analyzed(stack, IncrementCheck(stack, statement.expression.var_name, errs,
                             "Variable '{}' not declared for increment."), <<>>)
    ELSE ExpressionTyped(stack, errs,
                         evaluate_expression_type(statement.expression, stack))

\* analyze_for_loop: an increment that is an expression statement, e being
\* the result of evaluate_expression_type on its expression
ForLoopExpression(for_loop, stack, errs, inner, errs1, e) ==
    IF e.raised THEN AnalyzerRaised(stack, errs)
    ELSE Analyzed(inner, errs1 \o e.errors, <<for_loop.body>>)

\* analyze_for_loop: the increment, inner and errs1 being the scope stack
\* and the error list after the initialization and the condition
ForLoopIncrement(for_loop, stack, errs, inner, errs1) ==
    IF "var_name" \in DOMAIN for_loop.increment
    THEN Analyzed(inner,
                  IncrementCheck(inner, for_loop.increment.var_name, errs1,
                      "Variable '{}' for increment not declared."),
                  <<for_loop.body>>)
    ELSE IF "expression" \in DOMAIN for_loop.increment
    THEN ForLoopExpression(for_loop, stack, errs, inner, errs1,
             evaluate_expression_type(for_loop.increment.expression, inner))
    ELSE Analyzed(inner, errs1, <<for_loop.body>>)

\* analyze_for_loop: the condition, init being the result of the
\* initialization and c of evaluate_expression_type on the condition
ForLoopCondition(for_loop, stack, errs, init, c) ==
    IF init.raised \/ c.raised \/ for_loop.increment = None
    THEN AnalyzerRaised(init.stack, init.errors)
    ELSE ForLoopIncrement(for_loop, stack, errs, init.stack,
             IF c.type \notin {None, TypeName(Txt("bool"))}
             THEN Append(init.errors \o c.errors, Diagnostic("Error",
                      "Condition in for loop should evaluate to 'bool', got {}.",
                      <<Repr(c.type)>>))
             ELSE init.errors \o c.errors)

ForLoopInit(for_loop, stack, errs, init) ==
    ForLoopCondition(for_loop, stack, errs, init,
                     evaluate_expression_type(for_loop.condition, init.stack))

\* SemanticAnalyzer.analyze_for_loop
analyze_for_loop(for_loop, stack, errs) ==
    ForLoopInit(for_loop, stack, errs,
        IF for_loop.init.type = "VARIABLE_DECLARATION"
        THEN analyze_variable_declaration(for_loop.init, stack, errs)
        ELSE IF for_loop.init.type = "ASSIGNMENT"
        THEN check_assignment(for_loop.init, stack, errs)
        ELSE Analyzed(stack, Append(errs, Diagnostic("",
                 "Unsupported initialization type '{}' in for loop.",
                 <<Txt(for_loop.init.type)>>)), <<>>))

\* SemanticAnalyzer.analyze_statement: the handler of the statement's type.
\* No parser of the program builds a CLASS_DEFINITION node; its handler is
\* not modelled.
analyze_statement(statement, stack, errs) ==
    CASE statement.type = "VARIABLE_DECLARATION" ->
             analyze_variable_declaration(statement, stack, errs)
      [] statement.type = "ASSIGNMENT" -> check_assignment(statement, stack, errs)
      [] statement.type = "FUNCTION_DEFINITION" -> analyze_function(statement, stack, errs)
      [] statement.type = "BLOCK" -> analyze_block(statement.statements, stack, errs)
      [] statement.type = "IF_STATEMENT" -> analyze_if_statement(statement, stack, errs)
      [] statement.type = "WHILE_LOOP" -> analyze_while_loop(statement, stack, errs)
      [] statement.type = "RETURN_STATEMENT" ->
             analyze_return_statement(statement, stack, errs)
      [] statement.type = "IO_STATEMENT" ->
             IoExpressions(statement.expressions, 1, stack, errs)
      [] statement.type = "INCREMENT" ->
             Analyzed(stack, IncrementCheck(stack, statement.var_name, errs,
                                 "Variable '{}' not declared for increment operation."),
                      <<>>)
      [] statement.type = "FOR_LOOP" -> analyze_for_loop(statement, stack, errs)
      [] statement.type = "EXPRESSION_STATEMENT" ->
             analyze_expression_statement(statement, stack, errs)
      [] OTHER -> Analyzed(stack, Append(errs, Diagnostic("Warning",
                      "Unsupported statement type '{}'.", <<Txt(statement.type)>>)), <<>>)

\* SemanticAnalyzer.analyze, by its worklist: the result of analysing every
\* pending item in order
RECURSIVE AnalyzeAll(_, _, _)
AnalyzeRest(work, stack, errs, a) ==
    IF a.raised THEN [stack |-> stack, errors |-> errs, raised |-> TRUE]
    ELSE AnalyzeAll(a.push \o Tail(work), a.stack, a.errors)
AnalyzeAll(work, stack, errs) ==
    IF work = <<>> THEN [stack |-> stack, errors |-> errs, raised |-> FALSE]
    ELSE IF work[1] = ExitScope THEN AnalyzeAll(Tail(work), exit_scope(stack), errs)
    ELSE AnalyzeRest(work, stack, errs, analyze_statement(work[1], stack, errs))

\* SemanticAnalyzer.analyze of a fresh analyzer
analyze(program) == AnalyzeAll(program.statements, <<<<>>>>, <<>>)

-----------------------------------------------------------------------------
(* Python's str operations used by the generators                          *)

\* sep.join(parts)
RECURSIVE Join(_, _)
Join(parts, sep) ==
    IF parts = <<>> THEN <<>>
    ELSE IF Len(parts) = 1 THEN parts[1]
    ELSE parts[1] \o sep \o Join(Tail(parts), sep)

\* t.replace(old, new), for a non-empty old
RECURSIVE Replace(_, _, _)
Replace(t, old, new) ==
    IF t = <<>> THEN <<>>
    ELSE IF StartsAt(t, 0, old)
    THEN new \o Replace(SubSeq(t, Len(old) + 1, Len(t)), old, new)
    ELSE <<t[1]>> \o Replace(Tail(t), old, new)

\* t.replace('\n', '\n    ')
Indent(t) == Replace(t, <<"\n">>, Txt("\n    "))

\* t.lstrip(chars), t.rstrip(chars), t.strip(chars)
RECURSIVE LStrip(_, _), RStrip(_, _)
LStrip(t, chars) ==
    IF t # <<>> /\ t[1] \in chars THEN LStrip(Tail(t), chars) ELSE t
RStrip(t, chars) ==
    IF t # <<>> /\ t[Len(t)] \in chars THEN RStrip(SubSeq(t, 1, Len(t) - 1), chars) ELSE t
Strip(t, chars) == LStrip(RStrip(t, chars), chars)

\* old in t
Contains(t, old) == \E p \in 0..Len(t) : StartsAt(t, p, old)

\* t.endswith(lit)
EndsWith(t, lit) == StartsAt(t, Len(t) - Len(lit), lit)

\* the value of a decimal digit
DigitValue(c) == CHOOSE d \in 0..9 : ToString(d) = c

\* int(t) of a text of decimal digits with an optional sign: the number, or
\* ok = FALSE where int raises ValueError
RECURSIVE DigitsValue(_)
DigitsValue(t) ==
    IF t = <<>> THEN 0 ELSE 10 * DigitsValue(SubSeq(t, 1, Len(t) - 1)) + DigitValue(t[Len(t)])
ParseInt(t) ==
    LET body == IF t # <<>> /\ t[1] \in {"-", "+"} THEN Tail(t) ELSE t IN
    IF body # <<>> /\ \A k \in 1..Len(body) : body[k] \in Digits
    THEN [ok |-> TRUE, value |-> IF t[1] = "-" THEN 0 - DigitsValue(body)
                                 ELSE DigitsValue(body)]
    ELSE [ok |-> FALSE, err |-> "ValueError"]

\* str(n)
RECURSIVE NatStr(_)
NatStr(n) == IF n < 10 THEN <<ToString(n)>> ELSE NatStr(n \div 10) \o <<ToString(n % 10)>>
IntStr(n) == IF n < 0 THEN <<"-">> \o NatStr(0 - n) ELSE NatStr(n)

-----------------------------------------------------------------------------
(* convertercpp.py                                                         *)

\* a generated text; Fail(kind) where the generator raises
Text(t) == [ok |-> TRUE, text |-> t]

Quote == <<"\"">>

\* Converter.lookup_variable_type
RECURSIVE lookup_variable_type(_, _, _)
lookup_variable_type(var_name, statements, index) ==
    IF statements = <<>> \/ index < 1 THEN None
    ELSE LET stmt == statements[index] IN
         IF stmt.type = "VARIABLE_DECLARATION" /\ stmt.var_name = var_name
         THEN TypeName(stmt.var_type)
         ELSE lookup_variable_type(var_name, statements, index - 1)

\* Converter.find_parent: search(n, target), and its loop over a statement
\* list from element k
RECURSIVE Search(_, _), SearchList(_, _, _, _)
SearchList(n, list, k, target) ==
    IF k > Len(list) THEN None
    ELSE IF list[k] = target THEN n
    ELSE LET result == Search(list[k], target) IN
         IF result # None THEN result ELSE SearchList(n, list, k + 1, target)
Search(n, target) ==
    LET in_statements == IF "statements" \in DOMAIN n
                         THEN SearchList(n, n.statements, 1, target) ELSE None
    IN IF in_statements # None THEN in_statements
       ELSE IF "body" \in DOMAIN n
       THEN IF n.type = "FUNCTION_DEFINITION" THEN SearchList(n, n.body, 1, target)
            ELSE IF "statements" \in DOMAIN n.body
            THEN SearchList(n, n.body.statements, 1, target)
            ELSE None
       ELSE None

\* the f-string part of one generated expression of a cout statement; the
\* empty text where it adds no part
FStringPart(expr) ==
    IF StartsAt(expr, 0, Quote) /\ EndsWith(expr, Quote)
    THEN Replace(Strip(expr, {"\""}), Txt("\\n"), <<>>)
    ELSE <<"{">> \o expr \o <<"}">>

\* is_prompt of the IO_STATEMENT rule: a cin statement follows in the list
IsPrompt(statements, index) ==
    /\ statements # <<>>
    /\ index + 1 < Len(statements)
    /\ statements[index + 2].type = "IO_STATEMENT"
    /\ statements[index + 2].io_operator = Txt("cin")

RECURSIVE generate_node(_, _, _, _, _), GenerateEach(_, _, _, _, _),
          GenerateBody(_, _, _, _), GenerateIoExpressions(_, _, _, _, _, _),
          process_false_branch(_, _, _)

\* [generate_node(stmt, list, i) for i, stmt in enumerate(list)], from
\* element k on; pass_list tells whether the call hands the list on
GenerateEach(list, k, pass_list, sem, root) ==
    IF k > Len(list) THEN [ok |-> TRUE, texts |-> <<>>]
    ELSE Then(generate_node(list[k], IF pass_list THEN list ELSE <<>>,
                            IF pass_list THEN k - 1 ELSE 0, sem, root), LAMBDA first :
         Then(GenerateEach(list, k + 1, pass_list, sem, root), LAMBDA rest :
         [ok |-> TRUE, texts |-> <<first.text>> \o rest.texts]))

\* the body of a loop or a branch: the statements of a BLOCK joined by
\* newlines (the empty lines dropped when drop_empty), or the one statement
GenerateBody(body, drop_empty, sem, root) ==
    IF body.type = "BLOCK"
    THEN Then(GenerateEach(body.statements, 1, TRUE, sem, root), LAMBDA b :
         Text(Join(IF drop_empty THEN SelectSeq(b.texts, LAMBDA line : line # <<>>)
                   ELSE b.texts, <<"\n">>)))
    ELSE generate_node(body, <<>>, 0, sem, root)

\* the for loop of the IO_STATEMENT rule over node["expressions"], from
\* element k: the generated expressions and the assignments found in cout
GenerateIoExpressions(node, k, expressions, assignments, sem, root) ==
    IF k > Len(node.expressions)
    THEN [ok |-> TRUE, expressions |-> expressions, assignments |-> assignments]
    ELSE LET expr_node == node.expressions[k] IN
         IF /\ expr_node.type = "BINARY_EXPRESSION"
            /\ expr_node.operator = <<"=">>
            /\ node.io_operator = Txt("cout")
         THEN Then(generate_node(expr_node.left, <<>>, 0, sem, root), LAMBDA var_name :
              Then(generate_node(expr_node.right, <<>>, 0, sem, root), LAMBDA value :
              GenerateIoExpressions(node, k + 1, Append(expressions, var_name.text),
                  Append(assignments, var_name.text \o Txt(" = ") \o value.text),
                  sem, root)))
         ELSE Then(generate_node(expr_node, <<>>, 0, sem, root), LAMBDA e :
              GenerateIoExpressions(node, k + 1, Append(expressions, e.text),
                                    assignments, sem, root))

\* process_false_branch of the IF_STATEMENT rule: the text it adds to result
process_false_branch(fb_node, sem, root) ==
    IF fb_node = None THEN Text(<<>>)
    ELSE IF fb_node.type = "IF_STATEMENT"
    THEN Then(generate_node(fb_node.condition, <<>>, 0, sem, root), LAMBDA next_condition :
         Then(GenerateBody(fb_node.true_branch, TRUE, sem, root), LAMBDA next_true_branch :
         Then(process_false_branch(fb_node.false_branch, sem, root), LAMBDA more :
         Text(Txt("\nelif ") \o next_condition.text \o Txt(":\n    ")
                  \o Indent(next_true_branch.text) \o more.text))))
    ELSE Then(GenerateBody(fb_node, TRUE, sem, root), LAMBDA false_branch :
         Text(Txt("\nelse:\n    ") \o Indent(false_branch.text)))

\* the IO_STATEMENT rule of generate_node; index is the 0-based position of
\* the node in statements, sem the scope stack the analysis left
GenerateIoStatement(node, statements, index, sem, root) ==
    IF node.expressions = <<>> THEN Text(Txt("print()"))
    ELSE
    Then(GenerateIoExpressions(node, 1, <<>>, <<>>, sem, root), LAMBDA io :
    LET expressions == io.expressions
        assignments == io.assignments
    IN
    IF node.io_operator = Txt("cout")
    THEN IF /\ IsPrompt(statements, index)
            /\ Len(expressions) = 1
            /\ StartsAt(expressions[1], 0, Quote)
         THEN Text(Join(assignments, <<"\n">>))
         ELSE LET f_string_parts == [k \in 1..Len(expressions) |-> FStringPart(expressions[k])]
                  out == Txt("print(f\"") \o Join(f_string_parts, <<>>) \o Txt("\")")
              IN Text(Join(Append(assignments, out), <<"\n">>))
    ELSE IF node.io_operator = Txt("cin")
    THEN LET var_name == expressions[1]
             found == lookup_variable(sem, var_name)
             var_type == IF found = None
                         THEN lookup_variable_type(var_name, statements, index)
                         ELSE found
             prev_stmt == IF statements # <<>> /\ index > 0 THEN statements[index] ELSE None
             read == IF var_type = TypeName(Txt("int"))
                     THEN [open |-> Txt(" = int(input("), close |-> Txt("))")]
                     ELSE [open |-> Txt(" = input("), close |-> Txt(")")]
         IN IF prev_stmt.type = "IO_STATEMENT" /\ prev_stmt.io_operator = Txt("cout")
            THEN IF prev_stmt.expressions = <<>> THEN Fail("IndexError")
                 ELSE Then(generate_node(prev_stmt.expressions[1], <<>>, 0, sem, root),
                           LAMBDA prompt :
                      Text(var_name \o read.open \o Quote \o Strip(prompt.text, {"\""})
                               \o Quote \o read.close))
            ELSE Text(var_name \o read.open \o read.close)
    ELSE Fail("TypeError"))

\* the FOR_LOOP rule of generate_node: start, end and step of the range
ForRange(node, sem, root) ==
    LET init == node.init
        condition == node.condition
        increment == node.increment
    IN
    Then(IF init.type = "VARIABLE_DECLARATION" /\ "initializer" \in DOMAIN init
         THEN generate_node(init.initializer, <<>>, 0, sem, root)
         ELSE IF init.type = "ASSIGNMENT"
         THEN generate_node(init.expression, <<>>, 0, sem, root)
         ELSE Text(<<"0">>), LAMBDA start :
    IF "right" \notin DOMAIN condition THEN Fail("KeyError")
    ELSE
    Then(generate_node(condition.right, <<>>, 0, sem, root), LAMBDA end :
    Then(IF condition.operator = Txt("<=")
         THEN Then(ParseInt(Strip(end.text, WhiteSpace)), LAMBDA n :
              [ok |-> TRUE, start |-> start.text, end |-> IntStr(n.value + 1),
               step |-> <<"1">>])
         ELSE IF condition.operator = <<">">>
         THEN [ok |-> TRUE, start |-> end.text, end |-> start.text, step |-> Txt("-1")]
         ELSE IF condition.operator = Txt(">=")
         THEN Then(ParseInt(Strip(end.text, WhiteSpace)), LAMBDA n :
              [ok |-> TRUE, start |-> start.text, end |-> IntStr(n.value - 1),
               step |-> Txt("-1")])
         ELSE [ok |-> TRUE, start |-> start.text, end |-> end.text, step |-> <<"1">>],
         LAMBDA r :
    IF increment # None /\ increment.type = "ASSIGNMENT"
       /\ increment.expression.type = "BINARY_EXPRESSION"
       /\ increment.expression.operator \in {<<"+">>, <<"-">>}
    THEN Then(generate_node(increment.expression.right, <<>>, 0, sem, root), LAMBDA by :
         [r EXCEPT !.step = IF increment.expression.operator = <<"+">> THEN by.text
                            ELSE <<"-">> \o by.text])
    ELSE IF increment # None /\ increment.type = "INCREMENT"
    THEN [r EXCEPT !.step = IF increment.operator = Txt("++") THEN <<"1">> ELSE Txt("-1")]
    ELSE r)))

\* a declaration that keeps its type keyword
DeclarationTextTyped(node, initializer) ==
    node.var_type \o <<" ">> \o node.var_name \o Txt(" = ") \o initializer

\* the text of a VARIABLE_DECLARATION with an initializer: f"{var_name} = {initializer}"
DeclarationText(node, initializer) == node.var_name \o Txt(" = ") \o initializer

\* Converter.generate_node; statements is the list the caller hands on, the
\* empty list where it hands on none (the rules treat the two alike)
generate_node(node, statements, index, sem, root) ==
    IF node.type = "PROGRAM"
    THEN Then(GenerateEach(node.statements, 1, TRUE, sem, root), LAMBDA stmts :
         Text(Join([k \in 1..Len(SelectSeq(stmts.texts, LAMBDA stmt : stmt # <<>>)) |->
                       LStrip(SelectSeq(stmts.texts, LAMBDA stmt : stmt # <<>>)[k],
                              WhiteSpace)],
                   <<"\n">>)))
    ELSE IF node.type = "FUNCTION_DEFINITION"
    THEN Then(GenerateEach(node.body, 1, TRUE, sem, root), LAMBDA body :
         LET body_str == Join(SelectSeq(body.texts,
                                  LAMBDA stmt : Strip(stmt, WhiteSpace) # <<>>), <<"\n">>)
         IN IF node.func_name = Txt("main") THEN Text(body_str)
            ELSE Text(Txt("def ") \o node.func_name \o Txt("():\n    ") \o Indent(body_str)))
    ELSE IF node.type = "IO_STATEMENT"
    THEN GenerateIoStatement(node, statements, index, sem, root)
    ELSE IF node.type = "VARIABLE_DECLARATION"
    THEN IF "initializer" \in DOMAIN node
         THEN Then(generate_node(node.initializer, <<>>, 0, sem, root), LAMBDA initializer :
              Text(DeclarationText(node, initializer.text)))
         ELSE Text(<<>>)
    ELSE IF node.type = "ASSIGNMENT"
    THEN LET var_name == node.var_name
             expression == node.expression
         IN IF /\ expression.type = "BINARY_EXPRESSION"
               /\ expression.operator \in {<<"+">>, <<"-">>, <<"*">>, <<"/">>, <<"%">>}
               /\ expression.left.type = "IDENTIFIER"
               /\ expression.left.value = var_name
            THEN Then(generate_node(expression.right, <<>>, 0, sem, root), LAMBDA right :
                 Text(var_name \o <<" ">> \o expression.operator \o Txt("= ") \o right.text))
            ELSE Then(generate_node(expression, <<>>, 0, sem, root), LAMBDA expr_code :
                 Text(var_name \o Txt(" = ") \o expr_code.text))
    ELSE IF node.type = "EXPRESSION_STATEMENT"
    THEN generate_node(node.expression, <<>>, 0, sem, root)
    ELSE IF node.type = "FOR_LOOP"
    THEN Then(ForRange(node, sem, root), LAMBDA r :
         Then(GenerateBody(node.body, FALSE, sem, root), LAMBDA body_str :
         Text(Txt("for ") \o node.init.var_name \o Txt(" in range(") \o r.start
                  \o Txt(", ") \o r.end \o Txt(", ") \o r.step \o Txt("):\n    ")
                  \o Indent(body_str.text))))
    ELSE IF node.type = "WHILE_LOOP"
    THEN Then(generate_node(node.condition, <<>>, 0, sem, root), LAMBDA condition_str :
         Then(GenerateBody(node.body, TRUE, sem, root), LAMBDA body :
         Text(Txt("while ") \o condition_str.text \o Txt(":\n    ") \o Indent(body.text))))
    ELSE IF node.type = "INCREMENT"
    THEN IF node.operator = Txt("++") THEN Text(node.var_name \o Txt(" += 1"))
         ELSE IF node.operator = Txt("--") THEN Text(node.var_name \o Txt(" -= 1"))
         ELSE Fail("ValueError")
    ELSE IF node.type = "BINARY_EXPRESSION"
    THEN Then(generate_node(node.left, <<>>, 0, sem, root), LAMBDA left :
         Then(generate_node(node.right, <<>>, 0, sem, root), LAMBDA right :
         Text(left.text \o <<" ">> \o node.operator \o <<" ">> \o right.text)))
    ELSE IF node.type \in {"STRING_LITERAL", "NUMBER", "IDENTIFIER"} THEN Text(node.value)
    ELSE IF node.type = "RETURN_STATEMENT"
    THEN Then(generate_node(node.expression, <<>>, 0, sem, root), LAMBDA expression :
         LET parent == Search(root, node) IN
         IF parent.type = "FUNCTION_DEFINITION" /\ parent.func_name # Txt("main")
         THEN Text(Txt("return ") \o expression.text)
         ELSE Text(<<>>))
    ELSE IF node.type = "IF_STATEMENT"
    THEN Then(generate_node(node.condition, <<>>, 0, sem, root), LAMBDA condition :
         Then(GenerateBody(node.true_branch, TRUE, sem, root), LAMBDA true_branch :
         Then(process_false_branch(node.false_branch, sem, root), LAMBDA more :
         Text(Txt("if ") \o condition.text \o Txt(":\n    ") \o Indent(true_branch.text)
                  \o more.text))))
    ELSE Text(<<>>)

\* the text generate_code returns for an AST whose analysis left the scope
\* stack sem and no diagnostic
GeneratedText(program, sem) ==
    Then(generate_node(program, <<>>, 0, sem, program), LAMBDA converted_code :
    Text(Strip(converted_code.text, WhiteSpace)))

\* Converter.generate_code of a Converter built with use_main = False:
\* "blocked" is the return of the empty text under "if errors"
Returned(g) ==
    IF g.ok THEN [status |-> "generated", text |-> g.text]
    ELSE [status |-> "raised", text |-> <<>>]
Gate(program, a) ==
    IF a.raised THEN [status |-> "raised", text |-> <<>>]
    ELSE IF a.errors # <<>> THEN [status |-> "blocked", text |-> <<>>]
    ELSE Returned(GeneratedText(program, a.stack))
generate_code(program) == Gate(program, analyze(program))

-----------------------------------------------------------------------------
(* python_semantic_analyzer.py                                             *)

PyExpressionTags ==
    {"STRING_LITERAL", "IDENTIFIER", "BINARY_EXPRESSION", "NUMBER", "FUNCTION_CALL"}

\* PythonSemanticAnalyzer.analyze, from statement k of the list: the
\* diagnostics it returns. The checks of a key the parser always sets, and
\* of a body that is not a list, are left out. The messages carry no
\* "Error:" or "Warning:" prefix.
RECURSIVE PyAnalyze(_, _)
PyAnalyze(statements, k) ==
    IF k > Len(statements) THEN <<>>
    ELSE
    LET statement == statements[k]
        Sub(branch) == IF branch.type = "BLOCK" THEN PyAnalyze(branch.statements, 1)
                       ELSE PyAnalyze(<<branch>>, 1)
        BadCondition(text) ==
            IF statement.condition.type \notin PyExpressionTags
            THEN <<Diagnostic("", text, <<Txt(statement.condition.type)>>)>>
            ELSE <<>>
        found ==
            CASE statement.type = "PRINT_STATEMENT" ->
                     IF statement.args = <<>>
                     THEN <<Diagnostic("",
                              "Print statement must have at least one argument to print.",
                              <<>>)>>
                     ELSE SelectSeq([a \in 1..Len(statement.args) |->
                              Diagnostic("",
                                  "Print statement only supports string literals, identifiers, binary expressions, numbers, or function calls. Found: {}",
                                  <<Txt(statement.args[a].type)>>)],
                              LAMBDA d : d.args[1] \notin {Txt(t) : t \in PyExpressionTags})
              [] statement.type = "ASSIGNMENT" ->
                     IF /\ statement.expression.type = "FUNCTION_CALL"
                        /\ statement.expression.func_name \notin {Txt("input"), Txt("int")}
                     THEN <<Diagnostic("", "Unsupported function call '{}' in assignment.",
                                       <<statement.expression.func_name>>)>>
                     ELSE <<>>
              [] statement.type = "FOR_LOOP" ->
                     (IF "limit" \in DOMAIN statement
                      THEN IF {"start", "stop", "step"} \cap DOMAIN statement # {}
                           THEN <<Diagnostic("",
                                    "For loop with 'limit' cannot have 'start', 'stop', or 'step'.",
                                    <<>>)>>
                           ELSE <<>>
                      ELSE (IF "start" \notin DOMAIN statement
                            THEN <<Diagnostic("",
                                     "For loop with multiple arguments must have a start value.",
                                     <<>>)>>
                            ELSE <<>>)
                           \o (IF "stop" \notin DOMAIN statement
                               THEN <<Diagnostic("",
                                        "For loop with multiple arguments must have a stop value.",
                                        <<>>)>>
                               ELSE <<>>))
                     \o PyAnalyze(statement.body, 1)
              [] statement.type = "WHILE_LOOP" ->
                     BadCondition("Invalid condition type in while loop: {}")
                         \o PyAnalyze(statement.body, 1)
              [] statement.type = "IF_STATEMENT" ->
                     BadCondition("Invalid condition type in if statement: {}")
                         \o Sub(statement.true_branch)
                         \o (IF statement.false_branch # None
                             THEN Sub(statement.false_branch) ELSE <<>>)
              [] statement.type = "VARIABLE_DECLARATION" ->
                     IF /\ "initializer" \in DOMAIN statement
                        /\ statement.initializer.type \notin PyExpressionTags
                     THEN <<Diagnostic("",
                              "Variable initializer must be a valid expression, got: {}",
                              <<Txt(statement.initializer.type)>>)>>
                     ELSE <<>>
              [] statement.type = "IO_STATEMENT" ->
                     IF "expression" \notin DOMAIN statement
                     THEN <<Diagnostic("",
                              "IO statement must have an operator and expression.", <<>>)>>
                     ELSE <<>>
              [] statement.type = "BLOCK" -> PyAnalyze(statement.statements, 1)
              [] statement.type \in {"FUNCTION_CALL", "RETURN_STATEMENT"} -> <<>>
              [] OTHER -> <<Diagnostic("", "Unsupported statement type: {}",
                                       <<Txt(statement.type)>>)>>
    IN found \o PyAnalyze(statements, k + 1)

-----------------------------------------------------------------------------
(* python_to_cpp_converter.py                                              *)

RECURSIVE generate_expression(_, _, _), determine_value_type(_)

\* PythonToCppConverter.generate_expression; target_var is the empty text
\* where the caller passes none
generate_expression(node, target_var, wrap_binary) ==
    IF node.type = "STRING_LITERAL"
    THEN Text(Quote \o SubSeq(node.value, 2, Len(node.value) - 1) \o Quote)
    ELSE IF node.type \in {"IDENTIFIER", "NUMBER"} THEN Text(node.value)
    ELSE IF node.type = "BINARY_EXPRESSION"
    THEN LET left == generate_expression(node.left, <<>>, FALSE).text
             right == generate_expression(node.right, <<>>, FALSE).text
             expr == left \o <<" ">> \o node.operator \o <<" ">> \o right
         IN Text(IF wrap_binary THEN <<"(">> \o expr \o <<")">> ELSE expr)
    ELSE IF node.type = "FUNCTION_CALL"
    THEN LET Read(prompt) == Text(Txt("    cout << ") \o prompt \o Txt(";\n    cin >> ")
                                      \o target_var \o <<";">>)
             PromptOf(call) == IF call.args # <<>>
                               THEN generate_expression(call.args[1], <<>>, FALSE).text
                               ELSE Txt("\"\"")
         IN IF node.func_name = Txt("input") /\ target_var # <<>>
            THEN Read(PromptOf(node))
            ELSE IF node.func_name = Txt("int") /\ target_var # <<>>
            THEN IF node.args = <<>> THEN Fail("IndexError")
                 ELSE IF /\ node.args[1].type = "FUNCTION_CALL"
                         /\ node.args[1].func_name = Txt("input")
                 THEN Read(PromptOf(node.args[1]))
                 ELSE Text(<<>>)
            ELSE Text(<<>>)
    ELSE Text(<<>>)

\* PythonToCppConverter.determine_value_type
determine_value_type(node) ==
    IF node.type = "NUMBER" THEN "number"
    ELSE IF node.type = "STRING_LITERAL" THEN "string"
    ELSE IF node.type = "FUNCTION_CALL" /\ node.func_name = Txt("input") THEN "string"
    ELSE IF node.type = "FUNCTION_CALL" /\ node.func_name = Txt("int") THEN "number"
    ELSE IF node.type = "BINARY_EXPRESSION" /\ node.operator = <<"+">>
    THEN IF "string" \in {determine_value_type(node.left), determine_value_type(node.right)}
         THEN "string" ELSE "number"
    ELSE "unknown"

\* the C++ type word of a value type
CppTypeOf(var_type) ==
    IF var_type = "string" THEN Txt("string")
    ELSE IF var_type = "number" THEN Txt("int")
    ELSE Txt("auto")

\* what process_node returns and the variables declared after it
Processed(t, variables) == [ok |-> TRUE, text |-> t, variables |-> variables]

\* the eight blanks before a body line
Deep(line) == Txt("        ") \o line

RECURSIVE process_node(_, _), ProcessEach(_, _, _), ProcessBranch(_, _),
          ProcessFalseBranch(_, _)

\* [self.process_node(stmt) for stmt in list], from element k on
ProcessEach(list, k, variables) ==
    IF k > Len(list) THEN [ok |-> TRUE, texts |-> <<>>, variables |-> variables]
    ELSE Then(process_node(list[k], variables), LAMBDA first :
         Then(ProcessEach(list, k + 1, first.variables), LAMBDA rest :
         [ok |-> TRUE, texts |-> <<first.text>> \o rest.texts,
          variables |-> rest.variables]))

\* the lines of a list of processed statements, the empty ones dropped, each
\* after eight blanks
BodyLines(texts, Clean(_)) ==
    LET lines == SelectSeq(texts, LAMBDA line : line # <<>>) IN
    Join([k \in 1..Len(lines) |-> Deep(Clean(lines[k]))], <<"\n">>)

Same(line) == line
RStripped(line) == RStrip(line, WhiteSpace)

\* the body of a branch of an if statement
ProcessBranch(branch, variables) ==
    IF branch.type = "BLOCK"
    THEN Then(ProcessEach(branch.statements, 1, variables), LAMBDA b :
         Processed(BodyLines(b.texts, Same), b.variables))
    ELSE Then(process_node(branch, variables), LAMBDA b :
         Processed(IF b.text # <<>> THEN Deep(b.text) ELSE <<>>, b.variables))

\* the while loop of the IF_STATEMENT rule over false_branch: the text it
\* adds to result
\* a false branch that is always emitted as an else block
ProcessFalseBranchFlat(false_branch, variables) ==
    IF false_branch = None THEN Processed(<<>>, variables)
    ELSE Then(ProcessBranch(false_branch, variables), LAMBDA else_body :
         Processed(Txt("\n    else {\n") \o else_body.text \o Txt("\n    }"),
                   else_body.variables))

ProcessFalseBranch(false_branch, variables) ==
    IF false_branch = None THEN Processed(<<>>, variables)
    ELSE IF false_branch.type = "IF_STATEMENT"
    THEN LET elif_condition == generate_expression(false_branch.condition, <<>>, FALSE).text IN
         Then(ProcessBranch(false_branch.true_branch, variables), LAMBDA elif_body :
         Then(ProcessFalseBranch(false_branch.false_branch, elif_body.variables), LAMBDA more :
         Processed(Txt("\n    else if (") \o elif_condition \o Txt(") {\n") \o elif_body.text
                       \o Txt("\n    }") \o more.text, more.variables)))
    ELSE Then(ProcessBranch(false_branch, variables), LAMBDA else_body :
         Processed(Txt("\n    else {\n") \o else_body.text \o Txt("\n    }"),
                   else_body.variables))

\* the ASSIGNMENT rule of process_node
ProcessAssignment(node, variables) ==
    LET var_name == node.var_name
        expr == node.expression
        declared == variables \cup {var_name}
    IN IF /\ expr.type = "BINARY_EXPRESSION"
          /\ expr.operator \in {<<"+">>, <<"-">>, <<"*">>, <<"/">>, <<"%">>}
          /\ expr.left.type = "IDENTIFIER"
          /\ expr.left.value = var_name
       THEN LET right == generate_expression(expr.right, <<>>, FALSE).text
                update == Txt("    ") \o var_name \o <<" ">> \o expr.operator \o Txt("= ")
                              \o right \o <<";">>
            IN IF var_name \notin variables
               THEN Processed(Txt("    ") \o CppTypeOf(determine_value_type(expr.right))
                                  \o <<" ">> \o var_name \o Txt(" = ") \o right
                                  \o Txt(";\n") \o update, declared)
               ELSE Processed(update, variables)
       ELSE Then(generate_expression(expr, var_name, FALSE), LAMBDA expr_result :
            IF var_name \notin variables
            THEN LET var_type == determine_value_type(expr) IN
                 IF /\ var_type \in {"string", "number"}
                    /\ StartsAt(expr_result.text, 0, Txt("    cout"))
                 THEN Processed(Txt("    ") \o CppTypeOf(var_type) \o <<" ">> \o var_name
                                    \o Txt(";\n") \o expr_result.text, declared)
                 ELSE Processed(Txt("    ") \o CppTypeOf(var_type) \o <<" ">> \o var_name
                                    \o Txt(" = ") \o expr_result.text \o <<";">>, declared)
            ELSE IF expr_result.text # <<>>
            THEN Processed(Txt("    ") \o var_name \o Txt(" = ") \o expr_result.text
                               \o <<";">>, variables)
            ELSE Processed(<<>>, variables))

\* the FOR_LOOP rule of process_node
ProcessForLoop(node, variables) ==
    LET iterator == node.iterator
        start == IF "start" \in DOMAIN node
                 THEN generate_expression(node.start, <<>>, FALSE).text ELSE <<"0">>
        stop == IF "stop" \in DOMAIN node
                THEN generate_expression(node.stop, <<>>, FALSE).text
                ELSE generate_expression(node.limit, <<>>, FALSE).text
        step == IF "step" \in DOMAIN node
                THEN generate_expression(node.step, <<>>, FALSE).text ELSE <<"1">>
        increment == IF step = <<"1">> THEN iterator \o Txt("++")
                     ELSE iterator \o Txt(" += ") \o step
    IN Then(ProcessEach(node.body, 1, variables), LAMBDA b :
       Processed(Txt("    for (")
                     \o (IF iterator \notin b.variables THEN Txt("int ") ELSE <<>>)
                     \o iterator \o Txt(" = ") \o start \o Txt("; ") \o iterator
                     \o Txt(" < ") \o stop \o Txt("; ") \o increment \o Txt(") {\n")
                     \o BodyLines(b.texts, RStripped) \o Txt("\n    }"),
                 b.variables \cup {iterator}))

\* PythonToCppConverter.process_node, from the set self.variables
process_node(node, variables) ==
    IF node.type = "ASSIGNMENT" THEN ProcessAssignment(node, variables)
    ELSE IF node.type = "PRINT_STATEMENT"
    THEN Processed(Txt("    cout << ")
                       \o Join([k \in 1..Len(node.args) |->
                                   generate_expression(node.args[k], <<>>, TRUE).text],
                               Txt(" << "))
                       \o Txt(" << endl;"), variables)
    ELSE IF node.type = "IF_STATEMENT"
    THEN LET condition == generate_expression(node.condition, <<>>, FALSE).text IN
         Then(ProcessBranch(node.true_branch, variables), LAMBDA body :
         Then(ProcessFalseBranch(node.false_branch, body.variables), LAMBDA more :
         Processed(Txt("    if (") \o condition \o Txt(") {\n") \o body.text
                       \o Txt("\n    }") \o more.text, more.variables)))
    ELSE IF node.type = "WHILE_LOOP"
    THEN LET condition == generate_expression(node.condition, <<>>, FALSE).text IN
         Then(ProcessEach(node.body, 1, variables), LAMBDA b :
         Processed(Txt("    while (") \o condition \o Txt(") {\n")
                       \o BodyLines(b.texts, RStripped) \o Txt("\n    }"), b.variables))
    ELSE IF node.type = "FOR_LOOP" THEN ProcessForLoop(node, variables)
    ELSE IF node.type = "BLOCK"
    THEN Then(ProcessEach(node.statements, 1, variables), LAMBDA b :
         LET lines == SelectSeq(b.texts, LAMBDA line : line # <<>>) IN
         Processed(Join([k \in 1..Len(lines) |->
                            Txt("    ") \o Strip(lines[k], WhiteSpace)], <<"\n">>),
                   b.variables))
    ELSE Processed(<<>>, variables)

\* PythonToCppConverter.process_program: the lists self.declarations and
\* self.statements after statement k and those behind it
RECURSIVE process_program(_, _, _, _, _)
process_program(list, k, variables, declarations, statements) ==
    IF k > Len(list)
    THEN [ok |-> TRUE, variables |-> variables, declarations |-> declarations,
          statements |-> statements]
    ELSE Then(process_node(list[k], variables), LAMBDA result :
         LET line == RStrip(result.text, WhiteSpace) IN
         IF result.text = <<>>
         THEN process_program(list, k + 1, result.variables, declarations, statements)
         ELSE IF list[k].type = "ASSIGNMENT" /\ list[k].var_name \notin result.variables
         THEN process_program(list, k + 1, result.variables,
                              Append(declarations, line), statements)
         ELSE process_program(list, k + 1, result.variables, declarations,
                              Append(statements, line)))

\* PythonToCppConverter.generate_code of a fresh converter
\* what generate_code places in main: the declarations, then the statements
MainBody(p) == Join(p.declarations, <<"\n">>) \o <<"\n">> \o Join(p.statements, <<"\n">>)

\* the text generate_code returns: the prologue, main and its body
ProgramText(p) ==
    Txt("#include <iostream>\n#include <string>\nusing namespace std;\n\nint main() {\n")
        \o MainBody(p) \o Txt("\n    return 0;\n}")

py_generate_code(program) ==
    Then(process_program(program.statements, 1, {}, <<>>, <<>>), LAMBDA p :
    Text(ProgramText(p)))

-----------------------------------------------------------------------------
(* The tokenizers, one loop iteration at a time                            *)

\* bounds of the inputs
MaxLexLen == 3
MaxTokens == 4

LexAlphabet == {"x", "1", "=", "<", " ", "(", "^", "#", "\""}

RECURSIVE TextsUpTo(_, _)
TextsUpTo(Alphabet, n) ==
    IF n = 0 THEN {<<>>}
    ELSE LET shorter == TextsUpTo(Alphabet, n - 1)
         IN shorter \cup {Append(t, c) : t \in {u \in shorter : Len(u) = n - 1},
                                          c \in Alphabet}

\* PythonToCppConverter.__init__: the fields of a converter just built
NewConverter == [variables |-> {}, declarations |-> <<>>, statements |-> <<>>]

\* the analyzer and generator state of a run that has not reached them
Untouched ==
    /\ ast = None
    /\ scope_stack = <<>>
    /\ errors = <<>>
    /\ todo = <<>>
    /\ output = <<>>
    /\ history = <<>>
    /\ converter = NewConverter

LexInit ==
    /\ lang \in {"cpp", "py"}
    /\ contents \in TextsUpTo(LexAlphabet, MaxLexLen)
    /\ position = 0
    /\ tokens = <<>>
    /\ pc = "scan"
    /\ Untouched

\* the state after an iteration of a tokenize loop that left it
Scanned(it) ==
    /\ position' = it.position
    /\ tokens' = it.tokens
    /\ pc' = IF it.raised THEN "raised" ELSE "scan"

\* Lexer.tokenize, one iteration of its while loop
CppLexStep ==
    /\ lang = "cpp"
    /\ pc = "scan"
    /\ position < Len(contents)
    /\ Scanned(CppLexIteration(contents, position, tokens))
    /\ UNCHANGED <<lang, contents, ast, scope_stack, errors, todo, output, history, converter>>

\* PythonLexer.tokenize, one iteration of its while loop. The token list of
\* a scan that does not advance grows without end; the model follows it up
\* to MaxTokens tokens.
PyLexStep ==
    /\ lang = "py"
    /\ pc = "scan"
    /\ position < Len(contents)
    /\ Len(tokens) < MaxTokens
    /\ Scanned(PyLexIteration(contents, position, tokens))
    /\ UNCHANGED <<lang, contents, ast, scope_stack, errors, todo, output, history, converter>>

\* the while loop ends: tokenize returns the token list
LexReturn ==
    /\ pc = "scan"
    /\ position >= Len(contents)
    /\ pc' = "returned"
    /\ UNCHANGED <<lang, contents, position, tokens, ast, scope_stack, errors, todo,
                   output, history, converter>>

LexNext == CppLexStep \/ PyLexStep \/ LexReturn

SpecLex == LexInit /\ [][LexNext]_vars

\* the match ends of the declared patterns of the run's grammar at offset p
PatternEnds(l, s, p) == IF l = "cpp" THEN CppPatternEnds(s, p) ELSE PyPatternEnds(s, p)

\* no declared pattern matches a non-empty lexeme at offset p
NothingMatches(l, s, p) ==
    LET ends == PatternEnds(l, s, p) IN \A k \in 1..Len(ends) : ends[k] <= p

\* C2: in both tokenizers, at every offset the scan reaches where no declared
\* pattern matches a non-empty lexeme, tokenize raises its failure naming
\* that offset: the offset stays, no token is emitted for the character and
\* the scan does not go on.
C2_UnmatchedRaises ==
    [][(pc = "scan" /\ position < Len(contents)
            /\ NothingMatches(lang, contents, position))
        => (pc' = "raised" /\ position' = position /\ tokens' = tokens)]_vars

\* C3: tokenization is a finite computation in both grammars: every
\* iteration of the loop strictly increases the scan offset or raises, and
\* no emitted lexeme is empty.
C3_IterationAdvances ==
    [][(pc = "scan" /\ position < Len(contents))
        => /\ position' > position \/ pc' = "raised"
           /\ \A k \in 1..Len(tokens') : tokens'[k].value # <<>>]_vars

-----------------------------------------------------------------------------
(* A translation run, one stage at a time: tokenize, parse, analyze the    *)
(* statements one by one, generate                                         *)

\* bound of the programs: the number of statements of a source
MaxStatements == 2

CppSnippets ==
    { Txt("int x = 1;"), Txt("float x = 2;"), Txt("y = z;"), Txt(";"),
      Txt("x = x + 1;"), Txt("{ int y = 1; float y = 2; }"),
      Txt("{ int x = 3; y = x; }"),
      Txt("for (int i = 0; i < 2; i++) cout << i;"),
      Txt("for (int i = 0; i < 2; i = k + 1) x++;"),
      Txt("if (x < 1) x = 2; else y = 1;"),
      Txt("int main() { int x = 1; return 0; }"),
      Txt("string s = \"a\"; s++;"), Txt("while (x < 2) x++;"),
      Txt("cout << y;"), Txt("x %= 2;"), Txt("int x = 1 $") }

PySnippets ==
    { Txt("x = 1"), Txt("print(y)"), Txt("y = z"), Txt("x += 2"),
      Txt("for i in range(3): print(i)"), Txt("if x < 1: y = 1\nelse: y = 2"),
      Txt("print()"), Txt("x = f(1)"), Txt("x = 1 $"), Txt("x = = 1") }

\* the sources of up to n statements taken from Snippets, sep between two
RECURSIVE Programs(_, _, _)
Programs(Snippets, sep, n) ==
    IF n = 0 THEN {<<>>}
    ELSE LET shorter == Programs(Snippets, sep, n - 1)
         IN shorter \cup Snippets
               \cup {t \o sep \o u : t \in shorter \ {<<>>}, u \in Snippets}

\* a run that has tokenized nothing yet
Unread ==
    /\ position = 0
    /\ tokens = <<>>
    /\ pc = "source"
    /\ Untouched

PipelineInit ==
    /\ \/ lang = "cpp" /\ contents \in Programs(CppSnippets, <<" ">>, MaxStatements)
       \/ lang = "py" /\ contents \in Programs(PySnippets, <<"\n">>, MaxStatements)
    /\ Unread

\* one iteration of the while loop of Lexer(source).tokenize() or of
\* PythonLexer(source).tokenize(); an iteration that leaves the scan offset
\* where it was is repeated for ever, the run hangs
Tokenized(it) ==
    /\ position' = it.position
    /\ tokens' = IF it.raised \/ it.position = position THEN tokens ELSE it.tokens
    /\ pc' = IF it.raised THEN "raised"
             ELSE IF it.position = position THEN "hang" ELSE "source"

Tokenize ==
    /\ pc = "source"
    /\ position < Len(contents)
    /\ Tokenized(IF lang = "cpp" THEN CppLexIteration(contents, position, tokens)
                 ELSE PyLexIteration(contents, position, tokens))
    /\ UNCHANGED <<lang, contents, ast, scope_stack, errors, todo, output, history, converter>>

\* the while loop ends: tokenize returns the token list
TokenizeReturn ==
    /\ pc = "source"
    /\ position >= Len(contents)
    /\ pc' = "tokenized"
    /\ UNCHANGED <<lang, contents, position, tokens, ast, scope_stack, errors, todo,
                   output, history, converter>>

\* ProgramParser(tokens).parse_program() of the run's grammar
ParsedProgram(p) ==
    IF p.ok THEN ast' = p.node /\ pc' = "parsed"
    ELSE ast' = ast /\ pc' = "raised"

Parse ==
    /\ pc = "tokenized"
    /\ ParsedProgram(IF lang = "cpp" THEN CppParseProgram(tokens)
                     ELSE PyParseProgram(tokens))
    /\ UNCHANGED <<lang, contents, position, tokens, scope_stack, errors, todo,
                   output, history, converter>>

\* Converter.generate_code builds a SemanticAnalyzer and calls analyze, which
\* starts on the statements of the program with one empty frame
BeginAnalysis ==
    /\ lang = "cpp"
    /\ pc = "parsed"
    /\ scope_stack' = <<<<>>>>
    /\ errors' = <<>>
    /\ todo' = ast.statements
    /\ pc' = "analyzing"
    /\ UNCHANGED <<lang, contents, position, tokens, ast, output, history, converter>>

\* the state after a handler of analyze_statement that left a; a handler
\* that raises leaves the analyzer as it was when it raised
StatementAnalyzed(a) ==
    IF a.raised
    THEN /\ scope_stack' = a.stack
         /\ errors' = a.errors
         /\ todo' = todo
         /\ pc' = "raised"
    ELSE /\ scope_stack' = a.stack
         /\ errors' = a.errors
         /\ todo' = a.push \o Tail(todo)
         /\ pc' = pc

\* SemanticAnalyzer.analyze_statement of the next pending statement
AnalyzeStatement ==
    /\ pc = "analyzing"
    /\ todo # <<>>
    /\ todo[1] # ExitScope
    /\ StatementAnalyzed(analyze_statement(todo[1], scope_stack, errors))
    /\ UNCHANGED <<lang, contents, position, tokens, ast, output, history, converter>>

\* SemanticAnalyzer.exit_scope, at the end of a block or of a function body
ExitScopeStep ==
    /\ pc = "analyzing"
    /\ todo # <<>>
    /\ todo[1] = ExitScope
    /\ scope_stack' = exit_scope(scope_stack)
    /\ todo' = Tail(todo)
    /\ UNCHANGED <<lang, contents, position, tokens, pc, ast, errors, output, history, converter>>

\* Converter.generate_code: "if errors: return ''"
GateBlocks ==
    /\ pc = "analyzing"
    /\ todo = <<>>
    /\ errors # <<>>
    /\ output' = <<>>
    /\ pc' = "blocked"
    /\ UNCHANGED <<lang, contents, position, tokens, ast, scope_stack, errors, todo,
                   history, converter>>

\* the state after a generator that left the text g, or raised
Emitted(g) ==
    IF g.ok THEN output' = g.text /\ pc' = "generated"
    ELSE output' = output /\ pc' = "raised"

\* Converter.generate_code: generate_node of the program, stripped
Generate ==
    /\ pc = "analyzing"
    /\ todo = <<>>
    /\ errors = <<>>
    /\ Emitted(GeneratedText(ast, scope_stack))
    /\ UNCHANGED <<lang, contents, position, tokens, ast, scope_stack, errors, todo,
                   history, converter>>

\* PythonSemanticAnalyzer().analyze(ast)
PyAnalyzeStep ==
    /\ lang = "py"
    /\ pc = "parsed"
    /\ errors' = PyAnalyze(ast.statements, 1)
    /\ pc' = "analyzed"
    /\ UNCHANGED <<lang, contents, position, tokens, ast, scope_stack, todo, output,
                   history, converter>>

\* the state after process_program of the converter that left p, or raised
Converted(p) ==
    IF p.ok
    THEN /\ converter' = [variables |-> p.variables, declarations |-> p.declarations,
                          statements |-> p.statements]
         /\ output' = ProgramText(p)
         /\ pc' = "generated"
    ELSE /\ converter' = converter
         /\ output' = output
         /\ pc' = "raised"

\* PythonToCppConverter(ast).generate_code(): the converter reads the AST
\* only, so that it runs on an analyzed AST as on one that was not.
PyTranslate ==
    /\ lang = "py"
    /\ pc \in {"parsed", "analyzed"}
    /\ Converted(process_program(ast.statements, 1, converter.variables,
                                 converter.declarations, converter.statements))
    /\ UNCHANGED <<lang, contents, position, tokens, ast, scope_stack, errors, todo,
                   history>>

Stage ==
    \/ Tokenize \/ TokenizeReturn \/ Parse \/ BeginAnalysis \/ AnalyzeStatement \/ ExitScopeStep
    \/ GateBlocks \/ Generate \/ PyAnalyzeStep \/ PyTranslate

SpecPipeline == PipelineInit /\ [][Stage]_vars

\* the diagnostics of level "Error" of a list
ErrorEntries(list) == SelectSeq(list, LAMBDA d : d.level = "Error")

\* C1: Converter.generate_code returns target text if and only if the
\* diagnostic list of SemanticAnalyzer.analyze holds no error entry: a list
\* of warnings only never blocks generation, a list with an error always does.
C1_GateOnErrorsOnly ==
    (lang = "cpp" /\ pc \in {"blocked", "generated"})
        => (pc = "generated" <=> ErrorEntries(errors) = <<>>)

\* the analyzer is about to handle a statement
AtStatement == pc = "analyzing" /\ todo # <<>> /\ todo[1] # ExitScope

\* the statement declares a variable: a declaration, or a for loop whose
\* initialization is one
Declares(statement) ==
    \/ statement.type = "VARIABLE_DECLARATION"
    \/ statement.type = "FOR_LOOP" /\ statement.init.type = "VARIABLE_DECLARATION"

DeclaredName(statement) ==
    IF statement.type = "FOR_LOOP" THEN statement.init.var_name ELSE statement.var_name

\* a diagnostic that reports the redeclaration of name
IsRedeclaration(d, name) ==
    /\ d.level = "Error"
    /\ d.text \in {"Variable '{}' already declared.",
                   "Variable '{}' already declared in this scope."}
    /\ d.args = <<name>>

\* the diagnostics a step appended
Appended == SubSeq(errors', Len(errors) + 1, Len(errors'))

\* C4: in the C++ analyzer, whatever declarations, block entries and block
\* exits came before, declaring a name that is bound in the innermost frame
\* appends a redeclaration error and leaves the bindings of the frame as
\* they were.
C4_RedeclarationRejected ==
    [][(/\ AtStatement
        /\ Declares(todo[1])
        /\ InFrame(scope_stack[Len(scope_stack)], DeclaredName(todo[1])))
       => /\ \E k \in 1..Len(Appended) :
                 IsRedeclaration(Appended[k], DeclaredName(todo[1]))
          /\ Len(errors') > Len(errors)
          /\ scope_stack' = scope_stack]_vars

\* a redeclaration was rejected inside a block: the innermost frame still
\* binds the name to the type of its first declaration
C4_Witness ==
    /\ pc = "analyzing"
    /\ Len(scope_stack) > 1
    /\ \E k \in 1..Len(errors) :
          /\ IsRedeclaration(errors[k], <<"y">>)
          /\ InFrame(scope_stack[Len(scope_stack)], <<"y">>)
          /\ FrameGet(scope_stack[Len(scope_stack)], <<"y">>) = TypeName(Txt("int"))

\* the names an expression uses
RECURSIVE Names(_)
Names(expression) ==
    IF expression = None THEN {}
    ELSE IF expression.type = "IDENTIFIER" THEN {expression.value}
    ELSE IF expression.type = "INCREMENT" THEN {expression.var_name}
    ELSE IF expression.type = "BINARY_EXPRESSION"
    THEN Names(expression.left) \cup Names(expression.right)
    ELSE IF expression.type = "FUNCTION_CALL"
    THEN UNION {Names(expression.args[k]) : k \in 1..Len(expression.args)}
    ELSE {}

\* the names an assignment or a declaration uses: the target of the
\* assignment and the names of the expression
StoreNames(node) ==
    IF node.type = "ASSIGNMENT" THEN {node.var_name} \cup Names(node.expression)
    ELSE IF node.type = "VARIABLE_DECLARATION" /\ "initializer" \in DOMAIN node
    THEN Names(node.initializer)
    ELSE {}

\* the names a C++ statement uses itself, those of the statements nested in
\* it (which the analyzer handles in steps of their own) left out
UsedNames(statement) ==
    CASE statement.type \in {"ASSIGNMENT", "VARIABLE_DECLARATION"} -> StoreNames(statement)
      [] statement.type = "IO_STATEMENT" ->
             UNION {Names(statement.expressions[k]) : k \in 1..Len(statement.expressions)}
      [] statement.type = "INCREMENT" -> {statement.var_name}
      [] statement.type \in {"EXPRESSION_STATEMENT", "RETURN_STATEMENT"} ->
             Names(statement.expression)
      [] statement.type \in {"IF_STATEMENT", "WHILE_LOOP"} -> Names(statement.condition)
      [] statement.type = "FOR_LOOP" ->
             StoreNames(statement.init) \cup Names(statement.condition)
                 \cup (IF statement.increment = None THEN {}
                       ELSE StoreNames(statement.increment) \cup Names(statement.increment))
      [] OTHER -> {}

\* the names a statement uses that no frame of the stack binds
Unbound(statement, stack) ==
    {name \in UsedNames(statement) : lookup_variable(stack, name) = None}

UndeclaredTexts ==
    {"Variable '{}' not declared in {context}.", "Variable '{}' not declared.",
     "Variable '{}' not declared for increment.",
     "Variable '{}' not declared for increment operation.",
     "Variable '{}' for increment not declared."}

\* a diagnostic that reports the use of the undeclared name
IsUndeclaredUse(d, name) ==
    d.level = "Error" /\ d.text \in UndeclaredTexts /\ d.args = <<name>>

\* the names the top-level print statements and assignments of a Python
\* program use, and those its top-level assignments bind
PyUsed(statements) ==
    UNION {IF statements[k].type = "PRINT_STATEMENT"
           THEN UNION {Names(statements[k].args[j]) : j \in 1..Len(statements[k].args)}
           ELSE IF statements[k].type = "ASSIGNMENT" THEN Names(statements[k].expression)
           ELSE {} : k \in 1..Len(statements)}

PyBound(statements) ==
    {statements[k].var_name :
        k \in {j \in 1..Len(statements) : statements[j].type = "ASSIGNMENT"}}

\* C5: in the analyzer of either grammar, every use of a name that no frame
\* binds (an operand, an assignment target, the right-hand side of an
\* assignment, an increment target, an I/O operand) puts an undeclared-use
\* error for that name in the diagnostics.
C5_UndeclaredUseReported ==
    [][/\ AtStatement =>
            \A name \in Unbound(todo[1], scope_stack') :
                \E k \in 1..Len(Appended) : IsUndeclaredUse(Appended[k], name)
       /\ (lang = "py" /\ pc = "parsed" /\ pc' = "analyzed") =>
            \A name \in PyUsed(ast.statements) \ PyBound(ast.statements) :
                \E k \in 1..Len(errors') : errors'[k].args = <<name>>]_vars

\* C6: SemanticAnalyzer.analyze never stops at the first failure: the
\* handler of a statement keeps the diagnostics found so far and appends one
\* for each defect of the statement, two undeclared names of one statement
\* being two defects, and the statements after a defective one are handled
\* as well.
C6_EveryDefectReported ==
    [][AtStatement =>
          /\ Len(errors') >= Len(errors)
          /\ SubSeq(errors', 1, Len(errors)) = errors
          /\ Len(errors') - Len(errors) >= Cardinality(Unbound(todo[1], scope_stack'))
          /\ pc' # "raised" => pc' = "analyzing"]_vars

-----------------------------------------------------------------------------
(* Translations of loops, of updates and of conditional chains, and the    *)
(* translation of a result back into the grammar it came from              *)

\* bounds of the sources: the integer literals of a loop, its step, and the
\* number of conditions of a chain
MaxLoopBound == 3
MaxStep == 2
MaxChain == 3

\* the iterations after which the model stops following a loop
Fuel == MaxLoopBound + 3

AscendingIncrements == {Txt("i++")} \cup {Txt("i += ") \o IntStr(c) : c \in 1..MaxStep}
DescendingIncrements == {Txt("i--")} \cup {Txt("i -= ") \o IntStr(c) : c \in 1..MaxStep}

CppLoop(a, op, b, inc) ==
    Txt("for (int i = ") \o IntStr(a) \o Txt("; i ") \o op \o <<" ">> \o IntStr(b)
        \o Txt("; ") \o inc \o Txt(") cout << i;")

CppLoops ==
    {CppLoop(a, op, b, inc) : a \in 0..MaxLoopBound, b \in 0..MaxLoopBound,
                              op \in {<<"<">>, Txt("<=")}, inc \in AscendingIncrements}
    \cup {CppLoop(a, op, b, inc) : a \in 0..MaxLoopBound, b \in 0..MaxLoopBound,
                                   op \in {<<">">>, Txt(">=")}, inc \in DescendingIncrements}
    \cup {Txt("for (int i = 0; i < 2; i++) { cout << i; }")}

PyLoop(arguments) == Txt("for i in range(") \o arguments \o Txt("): x = 1")

PyLoops ==
    {PyLoop(IntStr(b)) : b \in 0..MaxLoopBound}
    \cup {PyLoop(IntStr(a) \o Txt(", ") \o IntStr(b)) :
             a \in 0..MaxLoopBound, b \in 0..MaxLoopBound}
    \cup {PyLoop(IntStr(a) \o Txt(", ") \o IntStr(b) \o Txt(", ") \o IntStr(c)) :
             a \in 0..MaxLoopBound, b \in 0..MaxLoopBound,
             c \in (1..MaxStep) \cup {0 - d : d \in 1..MaxStep}}
    \cup {Txt("for i in range(2): print(i)")}

UpdateOps == {<<"+">>, <<"-">>, <<"*">>, <<"/">>, <<"%">>}
\* the operands of an update: a literal, a name, and an expression
UpdateTerms == {<<"2">>, <<"y">>}
UpdateOperands == UpdateTerms \cup {Txt("y + 1")}

CppPrelude == Txt("int x = 1; int y = 2; ")
PyPrelude == Txt("x = 1\ny = 2\n")

\* x op= e and x = x op e, after the declarations of x and y
Compound(l, op, e) ==
    IF l = "cpp" THEN CppPrelude \o Txt("x ") \o op \o Txt("= ") \o e \o <<";">>
    ELSE PyPrelude \o Txt("x ") \o op \o Txt("= ") \o e

Plain(l, op, e) ==
    IF l = "cpp" THEN CppPrelude \o Txt("x = x ") \o op \o <<" ">> \o e \o <<";">>
    ELSE PyPrelude \o Txt("x = x ") \o op \o <<" ">> \o e

CppUpdates ==
    {Compound("cpp", op, e) : op \in UpdateOps, e \in UpdateOperands}
        \cup {Plain("cpp", op, e) : op \in UpdateOps, e \in UpdateOperands}

PyUpdates ==
    {Compound("py", op, e) : op \in UpdateOps, e \in UpdateOperands}
        \cup {Plain("py", op, e) : op \in UpdateOps, e \in UpdateOperands}

CppChainPrelude == Txt("int x = 0; int y = 0; ")
PyChainPrelude == Txt("x = 0\ny = 0\n")

\* a chain of n conditions x < 1, x < 2, ..., the branch of condition k
\* being y = k, and the else branch y = 0
RECURSIVE CppElseIfs(_, _), PyElifs(_, _)
CppElseIfs(k, n) ==
    IF k > n THEN <<>>
    ELSE Txt(" else if (x < ") \o IntStr(k) \o Txt(") y = ") \o IntStr(k) \o <<";">>
             \o CppElseIfs(k + 1, n)
PyElifs(k, n) ==
    IF k > n THEN <<>>
    ELSE Txt("\nelif x < ") \o IntStr(k) \o Txt(": y = ") \o IntStr(k) \o PyElifs(k + 1, n)

CppChain(n, with_else) ==
    CppChainPrelude \o Txt("if (x < 1) y = 1;") \o CppElseIfs(2, n)
        \o (IF with_else THEN Txt(" else y = 0;") ELSE <<>>)
PyChain(n, with_else) ==
    PyChainPrelude \o Txt("if x < 1: y = 1") \o PyElifs(2, n)
        \o (IF with_else THEN Txt("\nelse: y = 0") ELSE <<>>)

\* an output statement of each shape, the input statement that follows it
\* in the same statement list, and an output statement nothing follows
CppPrompts ==
    { Txt("string s; cout << \"Enter: \"; cin >> s;"),
      Txt("int n = 1; cout << \"Age: \"; cin >> n;"),
      Txt("int n = 1; cout << \"Age: \" << n; cin >> n;"),
      Txt("int n = 1; cout << n; cin >> n;"),
      Txt("int n = 1; cout << \"Age: \";") }

CppInitializers == {<<"5">>, Txt("1.5"), Txt("\"a\"")}

\* the declarations T x = e; of every type keyword
CppDeclarations ==
    {T \o Txt(" x = ") \o e \o <<";">> : T \in CppTypeWords, e \in CppInitializers}

\* assignments of a read with a prompt: the first assignment to x, a later
\* one, and one whose variable is later converted with int
PyInputs ==
    { Txt("x = input(\"Enter: \")"),
      Txt("x = 1\nx = input(\"Enter: \")"),
      Txt("x = input(\"Enter: \")\nx = int(x)") }

PyInitializers ==
    { <<"1">>, Txt("\"a\""), Txt("int(input(\"n\"))"), <<"y">>, Txt("1 + 2"),
      Txt("y * 2"), Txt("f(1)"), Txt("\"a\" + \"b\"") }

\* the first assignments x = e after a binding of y
PyFirstAssignments == {Txt("y = 1\nx = ") \o e : e \in PyInitializers}

TranslateInit ==
    /\ \/ /\ lang = "cpp"
          /\ contents \in CppLoops \cup CppUpdates
                 \cup {CppChain(n, e) : n \in 1..MaxChain, e \in BOOLEAN}
                 \cup CppPrompts \cup CppDeclarations
       \/ /\ lang = "py"
          /\ contents \in PyLoops \cup PyUpdates
                 \cup {PyChain(n, e) : n \in 1..MaxChain, e \in BOOLEAN}
                 \cup PyInputs \cup PyFirstAssignments
    /\ Unread

Other(l) == IF l = "cpp" THEN "py" ELSE "cpp"

\* the text a translation produced is handed to the translator of the
\* other direction
FeedBack ==
    /\ pc = "generated"
    /\ history = <<>>
    /\ output # <<>>
    /\ history' = <<[call |-> "translate", lang |-> lang, contents |-> contents]>>
    /\ lang' = Other(lang)
    /\ contents' = output
    /\ position' = 0
    /\ tokens' = <<>>
    /\ pc' = "source"
    /\ ast' = None
    /\ scope_stack' = <<>>
    /\ errors' = <<>>
    /\ todo' = <<>>
    /\ output' = <<>>
    /\ converter' = NewConverter

\* a translation of x op= e has ended: x = x op e is handed to a new
\* translator of the same direction, the end of the first being kept
NextForm ==
    /\ pc \in {"generated", "blocked", "raised", "hang"}
    /\ history = <<>>
    /\ \E op \in UpdateOps, e \in UpdateOperands :
          /\ contents = Compound(lang, op, e)
          /\ contents' = Plain(lang, op, e)
    /\ history' = <<[call |-> "update", lang |-> lang, contents |-> contents,
                     pc |-> pc, parsed |-> ast # None, output |-> output]>>
    /\ position' = 0
    /\ tokens' = <<>>
    /\ pc' = "source"
    /\ ast' = None
    /\ scope_stack' = <<>>
    /\ errors' = <<>>
    /\ todo' = <<>>
    /\ output' = <<>>
    /\ converter' = NewConverter
    /\ UNCHANGED lang

TranslateNext == Stage \/ FeedBack \/ NextForm

SpecTranslate == TranslateInit /\ [][TranslateNext]_vars

\* the offsets of the line breaks of t, with its two ends
Breaks(t) == {0, Len(t) + 1} \cup {p \in 1..Len(t) : t[p] = "\n"}

\* the k-th break of t
Break(t, k) == CHOOSE b \in Breaks(t) : Cardinality({c \in Breaks(t) : c < b}) = k - 1

\* the lines of t without the white space around them, the empty ones left out
Lines(t) ==
    SelectSeq([k \in 1..(Cardinality(Breaks(t)) - 1) |->
                  Strip(SubSeq(t, Break(t, k) + 1, Break(t, k + 1) - 1), WhiteSpace)],
              LAMBDA line : line # <<>>)

\* the first translation of a source of the grammar l has returned its text
Translated(l) == lang = l /\ pc = "generated" /\ history = <<>>

IsIo(statement, operator) ==
    statement.type = "IO_STATEMENT" /\ statement.io_operator = operator

\* the output statements of a list that an input statement follows at once
Prompts(statements) ==
    {k \in 1..(Len(statements) - 1) :
        IsIo(statements[k], Txt("cout")) /\ IsIo(statements[k + 1], Txt("cin"))}

\* C11: C++ to Python, a cout statement that a cin statement follows at once
\* in the same statement list is not emitted as a print statement, its text
\* is the prompt argument of the generated input call; this for every shape
\* of the cout (one string literal, several operands, a non-literal operand).
C11_PromptFolded ==
    (/\ Translated("cpp")
     /\ contents \in CppPrompts
     /\ Prompts(ast.statements) # {}
     /\ \A k \in 1..Len(ast.statements) :
            IsIo(ast.statements[k], Txt("cout")) => k \in Prompts(ast.statements))
        => /\ \A k \in 1..Len(Lines(output)) :
                  ~StartsAt(Lines(output)[k], 0, Txt("print("))
           /\ Contains(output, Txt("input(\""))

\* C12: Python to C++, the source x = input("Enter: ") followed later by the
\* conversion x = int(x) generates the printed prompt cout << "Enter: ";
\* and the read cin >> x; into an x declared with the integer type.
C12_ConvertedReadIsInt ==
    (Translated("py") /\ contents = Txt("x = input(\"Enter: \")\nx = int(x)"))
        => /\ \E k \in 1..(Len(Lines(output)) - 1) :
                  /\ Lines(output)[k] = Txt("cout << \"Enter: \";")
                  /\ Lines(output)[k + 1] = Txt("cin >> x;")
           /\ \E k \in 1..Len(Lines(output)) : StartsAt(Lines(output)[k], 0, Txt("int x"))

\* the lines of the body of main in a generated C++ program: those after
\* the four lines of the prologue and before return 0; and the closing brace
MainLines(t) == SubSeq(Lines(t), 5, Len(Lines(t)) - 2)

\* the lines the statements before the last one of a source generate
LinesBefore(source) ==
    IF source = Txt("x = 1\nx = input(\"Enter: \")") THEN <<Txt("int x = 1;")>> ELSE <<>>

\* C13: Python to C++, every assignment v = input(p) with a prompt, the
\* first assignment to v or a later one, generates exactly the pair
\* cout << p; cin >> v; preceded by a declaration of v only when it is the
\* first assignment, and no other statement text.
C13_InputPair ==
    (Translated("py")
     /\ contents \in {Txt("x = input(\"Enter: \")"), Txt("x = 1\nx = input(\"Enter: \")")})
        => MainLines(output) =
              LinesBefore(contents)
                  \o (IF LinesBefore(contents) = <<>> THEN <<Txt("string x;")>> ELSE <<>>)
                  \o <<Txt("cout << \"Enter: \";"), Txt("cin >> x;")>>

\* text is x = e for the declaration T x = e; that source is, and holds no
\* type keyword
Erased(source, text) ==
    /\ \E T \in CppTypeWords, e \in CppInitializers :
          source = T \o Txt(" x = ") \o e \o <<";">> /\ text = Txt("x = ") \o e
    /\ \A T \in CppTypeWords : ~Contains(text, T)

DeclarationGenerated(g) == g.ok /\ Erased(contents, g.text)

\* C14: C++ to Python, every variable declaration T x = e; of any type
\* keyword T generates x = e' with e' the generated initializer, and the
\* generated text holds no type keyword; int x = 5; generates exactly x = 5.
C14_TypesErased ==
    /\ (lang = "cpp" /\ pc = "parsed" /\ history = <<>> /\ contents \in CppDeclarations)
           => DeclarationGenerated(generate_node(ast.statements[1], ast.statements, 0,
                                                 <<<<>>>>, ast))
    /\ (Translated("cpp") /\ contents \in CppDeclarations) => Erased(contents, output)
    /\ (Translated("cpp") /\ contents = Txt("int x = 5;")) => output = Txt("x = 5")

C14_Witness ==
    /\ Translated("cpp")
    /\ contents = Txt("float x = 1.5;")
    /\ ast.statements[1].var_type = Txt("float")
    /\ output = Txt("x = 1.5")

\* the type the rule of C15 gives a declaration with the initializer e
SynthesizedType(e) ==
    IF e.type = "NUMBER" THEN Txt("int")
    ELSE IF e.type = "STRING_LITERAL" THEN Txt("string")
    ELSE IF /\ e.type = "FUNCTION_CALL"
            /\ e.func_name = Txt("int")
            /\ e.args # <<>>
            /\ e.args[1].type = "FUNCTION_CALL"
            /\ e.args[1].func_name = Txt("input")
    THEN Txt("int")
    ELSE Txt("auto")

\* C15: Python to C++, the first assignment to a name is emitted as a
\* declaration whose type is chosen from the initializer alone: int for a
\* numeric literal, string for a string literal, int for a read wrapped in
\* an int conversion, auto for every other initializer (an identifier, any
\* binary expression, any other call).
C15_TypeSynthesis ==
    (Translated("py") /\ contents \in PyFirstAssignments)
        => \E k \in 1..Len(Lines(output)) :
              StartsAt(Lines(output)[k], 0,
                       SynthesizedType(ast.statements[2].expression) \o Txt(" x"))

-----------------------------------------------------------------------------
(* Loops: the values of the loop variable                                  *)

\* the condition i op b of a C++ loop
Compares(op, x, y) ==
    CASE op = <<"<">> -> x < y
      [] op = Txt("<=") -> x <= y
      [] op = <<">">> -> x > y
      [] op = Txt(">=") -> x >= y

\* the values i takes in for (i = a; i op b; i += by), the first fuel of them
RECURSIVE CppLoopValues(_, _, _, _, _)
CppLoopValues(i, op, b, by, fuel) ==
    IF fuel = 0 \/ ~Compares(op, i, b) THEN <<>>
    ELSE <<i>> \o CppLoopValues(i + by, op, b, by, fuel - 1)

\* the values of range(start, stop, step), the first fuel of them
RECURSIVE RangeValues(_, _, _, _)
RangeValues(start, stop, step, fuel) ==
    IF fuel = 0 \/ step = 0 \/ (step > 0 /\ start >= stop) \/ (step < 0 /\ start <= stop)
    THEN <<>>
    ELSE <<start>> \o RangeValues(start + step, stop, step, fuel - 1)

\* the increments of the loops with the amount each adds to i
LoopSteps ==
    {[text |-> Txt("i++"), by |-> 1], [text |-> Txt("i--"), by |-> 0 - 1]}
        \cup {[text |-> Txt("i += ") \o IntStr(c), by |-> c] : c \in 1..MaxStep}
        \cup {[text |-> Txt("i -= ") \o IntStr(c), by |-> 0 - c] : c \in 1..MaxStep}

LoopOps == {<<"<">>, Txt("<="), <<">">>, Txt(">=")}

\* the first line of a generated Python loop
RangeHeader(start, stop, step) ==
    Txt("for i in range(") \o IntStr(start) \o Txt(", ") \o IntStr(stop) \o Txt(", ")
        \o IntStr(step) \o Txt("):")

\* the stop of the range for the condition i op b
StopFor(op, b) ==
    CASE op = Txt("<=") -> b + 1
      [] op = Txt(">=") -> b - 1
      [] OTHER -> b

\* C8: the Python loop generated for for (int i = a; i OP b; step) is
\* range(a, b, +c) for <, range(a, b + 1, +c) for <=, range(a, b, -c) for >
\* and range(a, b - 1, -c) for >=, and that range yields exactly the values i
\* takes in the C++ loop.
C8_RangeEnumerates ==
    (Translated("cpp") /\ contents \in CppLoops) =>
        \A a \in 0..MaxLoopBound, b \in 0..MaxLoopBound, op \in LoopOps, s \in LoopSteps :
            contents = CppLoop(a, op, b, s.text) =>
                /\ Lines(output)[1] = RangeHeader(a, StopFor(op, b), s.by)
                /\ \E start \in (0 - 1)..(MaxLoopBound + 1), stop \in (0 - 1)..(MaxLoopBound + 1) :
                      /\ Lines(output)[1] = RangeHeader(start, stop, s.by)
                      /\ RangeValues(start, stop, s.by, Fuel)
                             = CppLoopValues(a, op, b, s.by, Fuel)

\* the loops with < , <= and >= only: their ranges yield the values of i
C8_ExceptGreater ==
    (Translated("cpp") /\ contents \in CppLoops) =>
        \A a \in 0..MaxLoopBound, b \in 0..MaxLoopBound, op \in LoopOps \ {<<">">>},
           s \in LoopSteps :
            contents = CppLoop(a, op, b, s.text) =>
                /\ Lines(output)[1] = RangeHeader(a, StopFor(op, b), s.by)
                /\ RangeValues(a, StopFor(op, b), s.by, Fuel)
                       = CppLoopValues(a, op, b, s.by, Fuel)

\* the loops of each grammar with the values their variable takes
CppLoopsValued ==
    {[text |-> CppLoop(a, op, b, s.text), values |-> CppLoopValues(a, op, b, s.by, Fuel)] :
        a \in 0..MaxLoopBound, b \in 0..MaxLoopBound, op \in LoopOps, s \in LoopSteps}
    \cup {[text |-> Txt("for (int i = 0; i < 2; i++) { cout << i; }"), values |-> <<0, 1>>]}

PyLoopsValued ==
    {[text |-> PyLoop(IntStr(b)), values |-> RangeValues(0, b, 1, Fuel)] :
        b \in 0..MaxLoopBound}
    \cup {[text |-> PyLoop(IntStr(a) \o Txt(", ") \o IntStr(b)),
           values |-> RangeValues(a, b, 1, Fuel)] :
             a \in 0..MaxLoopBound, b \in 0..MaxLoopBound}
    \cup {[text |-> PyLoop(IntStr(a) \o Txt(", ") \o IntStr(b) \o Txt(", ") \o IntStr(c)),
           values |-> RangeValues(a, b, c, Fuel)] :
             a \in 0..MaxLoopBound, b \in 0..MaxLoopBound,
             c \in (1..MaxStep) \cup {0 - d : d \in 1..MaxStep}}
    \cup {[text |-> Txt("for i in range(2): print(i)"), values |-> <<0, 1>>]}

\* the first lines of the loops a translation can return, with their values
CppHeadersValued ==
    {[text |-> Txt("for (int i = ") \o IntStr(a) \o Txt("; i ") \o op \o <<" ">> \o IntStr(b)
                   \o Txt("; ") \o s.text \o Txt(") {"),
      values |-> CppLoopValues(a, op, b, s.by, Fuel)] :
        a \in (0 - 1)..(MaxLoopBound + 1), b \in (0 - 1)..(MaxLoopBound + 1),
        op \in LoopOps, s \in LoopSteps}

PyHeadersValued ==
    {[text |-> RangeHeader(a, b, c), values |-> RangeValues(a, b, c, Fuel)] :
        a \in (0 - 1)..(MaxLoopBound + 1), b \in (0 - 1)..(MaxLoopBound + 1),
        c \in (0 - MaxStep)..MaxStep}

LoopsValued(l) == IF l = "cpp" THEN CppLoopsValued ELSE PyLoopsValued
HeadersValued(l) == IF l = "cpp" THEN CppHeadersValued ELSE PyHeadersValued
LoopsOf(l) == IF l = "cpp" THEN CppLoops ELSE PyLoops

\* the first statement line of a text of the grammar l
FirstLine(l, t) ==
    LET lines == IF l = "cpp" THEN MainLines(t) ELSE Lines(t)
    IN IF lines = <<>> THEN <<>> ELSE lines[1]

\* a translation that did not return a text
Failed == pc \in {"raised", "blocked", "hang"}

\* the text under translation came from the translation of a loop
LoopFedBack == history # <<>> /\ history[1].contents \in LoopsOf(history[1].lang)

\* C7: a bounded loop is translated to the other grammar and the result is
\* translated back without a failure, and the loop that comes back takes
\* the values of the original loop in the same order, ascending or
\* descending.
C7_LoopRoundTrip ==
    /\ (history = <<>> /\ contents \in LoopsOf(lang)) => ~Failed
    /\ LoopFedBack => ~Failed
    /\ (LoopFedBack /\ pc = "generated") =>
           \E original \in LoopsValued(history[1].lang),
              final \in HeadersValued(history[1].lang) :
               /\ original.text = history[1].contents
               /\ final.text = FirstLine(history[1].lang, output)
               /\ final.values = original.values

\* the C++ loops that add to i
AscendingCpp(source) == source \in CppLoops /\ \E k \in 1..Len(source) : source[k] = "+"

\* the ascending C++ loops come back from Python with the values they had
C7_AscendingFromCpp ==
    /\ (history = <<>> /\ lang = "cpp" /\ AscendingCpp(contents)) => ~Failed
    /\ (history # <<>> /\ history[1].lang = "cpp" /\ AscendingCpp(history[1].contents)) =>
           /\ ~Failed
           /\ pc = "generated" =>
                 \E original \in CppLoopsValued, final \in CppHeadersValued :
                     /\ original.text = history[1].contents
                     /\ final.text = FirstLine("cpp", output)
                     /\ final.values = original.values

-----------------------------------------------------------------------------
(* Updates: the two forms of one update                                    *)

\* the translation of x = x op e has ended after that of x op= e
BothFormsDone ==
    /\ history # <<>>
    /\ history[1].call = "update"
    /\ pc \in {"generated", "blocked", "raised", "hang"}

\* the update whose two forms were translated
UpdateOf(op, e) == history[1].contents = Compound(lang, op, e)

\* C9: for every operator of + - * / % and in both directions, x op= e and
\* x = x op e both pass the tokenizer and the parser, and both are
\* translated to the same target statement.
C9_UpdatesAgree ==
    BothFormsDone =>
        \A op \in UpdateOps, e \in UpdateTerms :
            UpdateOf(op, e) =>
                /\ history[1].parsed
                /\ ast # None
                /\ history[1].pc = "generated"
                /\ pc = "generated"
                /\ output = history[1].output

\* the same for all updates but the C++ source with %
C9_ExceptCppModulo ==
    BothFormsDone =>
        \A op \in UpdateOps, e \in UpdateTerms :
            (UpdateOf(op, e) /\ ~(lang = "cpp" /\ op = <<"%">>)) =>
                /\ history[1].parsed
                /\ ast # None
                /\ history[1].pc = "generated"
                /\ pc = "generated"
                /\ output = history[1].output

-----------------------------------------------------------------------------
(* Conditional chains                                                      *)

Chain(l, n, with_else) == IF l = "cpp" THEN CppChain(n, with_else) ELSE PyChain(n, with_else)

\* the conditions of the IF_STATEMENT nodes linked through false_branch,
\* from the first
RECURSIVE Conditions(_)
Conditions(node) ==
    IF node.type = "IF_STATEMENT" THEN <<node.condition>> \o Conditions(node.false_branch)
    ELSE <<>>

\* what the last false_branch of the chain holds
RECURSIVE LastBranch(_)
LastBranch(node) ==
    IF node.type = "IF_STATEMENT" THEN LastBranch(node.false_branch) ELSE node

\* the header lines of the conditionals of a text of the grammar l
Headers(l, t) ==
    SelectSeq(IF l = "cpp" THEN MainLines(t) ELSE Lines(t),
              LAMBDA line : StartsAt(line, 0, Txt("if")) \/ StartsAt(line, 0, Txt("el")))

\* the header of the k-th condition x < k in the grammar l, and of else
Header(l, k) ==
    IF l = "cpp"
    THEN (IF k = 1 THEN Txt("if (x < ") ELSE Txt("else if (x < ")) \o IntStr(k) \o Txt(") {")
    ELSE (IF k = 1 THEN Txt("if x < ") ELSE Txt("elif x < ")) \o IntStr(k) \o <<":">>

ElseHeader(l) == IF l = "cpp" THEN Txt("else {") ELSE Txt("else:")

\* C10: a chain of N conditions, each branch one statement, parses in
\* either grammar into N IF_STATEMENT nodes linked through false_branch in
\* the order of the source, and the generator of the other grammar emits N
\* headers, an if followed by N - 1 elif or else if, with the conditions in
\* that order, and the else block when the source has one.
C10_ChainOfN ==
    \A n \in 1..MaxChain, with_else \in BOOLEAN :
        (history = <<>> /\ contents = Chain(lang, n, with_else)) =>
            /\ ~Failed
            /\ ast # None =>
                  /\ Conditions(ast.statements[3])
                         = [k \in 1..n |-> Binary(<<"<">>, Identifier(<<"x">>), Number(IntStr(k)))]
                  /\ (LastBranch(ast.statements[3]) # None) = with_else
            /\ pc = "generated" =>
                  Headers(Other(lang), output)
                      = [k \in 1..n |-> Header(Other(lang), k)]
                            \o (IF with_else THEN <<ElseHeader(Other(lang))>> ELSE <<>>)

C10_Witness ==
    /\ Translated("py")
    /\ contents = PyChain(MaxChain, TRUE)
    /\ Len(Conditions(ast.statements[3])) = MaxChain
    /\ Len(Headers("cpp", output)) = MaxChain + 1

-----------------------------------------------------------------------------
(* The C++ analyzer: shadowing, operand types, successive calls            *)

\* a diagnostic that warns of the shadowing of name
IsShadowing(d, name) ==
    /\ d.level = "Warning"
    /\ d.text = "Variable '{}' shadows a declaration in an outer scope."
    /\ d.args = <<name>>

\* name is bound in a frame under the innermost one, not in the innermost
BoundOutside(stack, name) ==
    /\ Len(stack) > 1
    /\ ~InFrame(stack[Len(stack)], name)
    /\ lookup_variable(stack, name) # None

\* C16: in the C++ analyzer, the analysis of a variable declaration inside
\* an inner block whose name is bound in an outer frame and not in the
\* current frame appends a shadowing warning for the declaration, no error.
C16_ShadowingWarned ==
    [][(/\ AtStatement
        /\ todo[1].type = "VARIABLE_DECLARATION"
        /\ BoundOutside(scope_stack, todo[1].var_name))
       => /\ \E k \in 1..Len(Appended) : IsShadowing(Appended[k], todo[1].var_name)
          /\ \A k \in 1..Len(Appended) : Appended[k].level # "Error"]_vars

\* the frame of a program that declared a variable of each type
TypedFrame ==
    FrameSet(FrameSet(FrameSet(FrameSet(<<>>,
        <<"i">>, TypeName(Txt("int"))),
        <<"f">>, TypeName(Txt("float"))),
        <<"s">>, TypeName(Txt("string"))),
        <<"b">>, TypeName(Txt("bool")))

\* operands of each type, u being bound nowhere
Operands ==
    {Number(<<"1">>), [type |-> "STRING_LITERAL", value |-> Txt("\"a\"")]}
        \cup {Identifier(<<v>>) : v \in {"i", "f", "s", "b", "u"}}

ArithmeticOps == {<<"+">>, <<"-">>, <<"*">>, <<"/">>, <<"%">>}

\* an expression of two operands waits for its type
TypesInit ==
    /\ lang = "cpp"
    /\ contents = <<>>
    /\ position = 0
    /\ tokens = <<>>
    /\ pc = "expression"
    /\ ast \in {Binary(op, l, r) : op \in ArithmeticOps \cup ComparisonOps,
                                   l \in Operands, r \in Operands}
    /\ scope_stack = <<TypedFrame>>
    /\ errors = <<>>
    /\ todo = <<>>
    /\ output = <<>>
    /\ history = <<>>
    /\ converter = NewConverter

\* evaluate_expression_type(expression, errors) returns: its result is kept
\* in history, what it appended in errors
EvaluateType ==
    /\ pc = "expression"
    /\ LET t == evaluate_expression_type(ast, scope_stack)
       IN /\ errors' = errors \o t.errors
          /\ history' = <<[call |-> "evaluate_expression_type", type |-> t.type,
                           raised |-> t.raised]>>
    /\ pc' = "typed"
    /\ UNCHANGED <<lang, contents, position, tokens, ast, scope_stack, todo, output,
                   converter>>

SpecTypes == TypesInit /\ [][EvaluateType]_vars

\* the type of an operand of the expression
OperandType(operand) == evaluate_expression_type(operand, scope_stack).type

Numeric(t) == t \in {TypeName(Txt("int")), TypeName(Txt("float"))}

\* C17: for every binary expression with an arithmetic operator, when an
\* operand has a type that is not numeric (string, bool, unresolved),
\* evaluate_expression_type appends an error and returns no numeric type;
\* int or float is returned only when both operands are numeric, float when
\* one of them is float.
C17_ArithmeticNeedsNumbers ==
    (pc = "typed" /\ ast.operator \in ArithmeticOps)
        => /\ (~Numeric(OperandType(ast.left)) \/ ~Numeric(OperandType(ast.right)))
                  => /\ \E k \in 1..Len(errors) : errors[k].level = "Error"
                     /\ ~Numeric(history[1].type)
           /\ (Numeric(OperandType(ast.left)) /\ Numeric(OperandType(ast.right)))
                  => history[1].type =
                        IF TypeName(Txt("float"))
                              \in {OperandType(ast.left), OperandType(ast.right)}
                        THEN TypeName(Txt("float")) ELSE TypeName(Txt("int"))

-----------------------------------------------------------------------------
(* A second call on the object of the first: generate_code of the same     *)
(* converter, analyze of the same analyzer                                 *)

RepeatInit ==
    /\ \/ lang = "cpp" /\ contents \in CppSnippets \cup CppPrompts
       \/ lang = "py" /\ contents \in PySnippets \cup PyInputs \cup PyFirstAssignments
    /\ Unread

\* PythonToCppConverter.generate_code once more on the converter that has
\* returned: process_program goes on from the fields the first call left
PyGenerateAgain ==
    /\ lang = "py"
    /\ pc = "generated"
    /\ history = <<>>
    /\ history' = <<[call |-> "generate_code", output |-> output]>>
    /\ Converted(process_program(ast.statements, 1, converter.variables,
                                 converter.declarations, converter.statements))
    /\ UNCHANGED <<lang, contents, position, tokens, ast, scope_stack, errors, todo>>

\* Converter.generate_code once more on the converter that has returned: it
\* builds a SemanticAnalyzer of its own and analyzes the AST before it
\* generates, as the first call did
GenerateAgain ==
    /\ lang = "cpp"
    /\ pc \in {"generated", "blocked"}
    /\ history = <<>>
    /\ history' = <<[call |-> "generate_code", output |-> output]>>
    /\ pc' = "parsed"
    /\ UNCHANGED <<lang, contents, position, tokens, ast, scope_stack, errors, todo,
                   output, converter>>

\* SemanticAnalyzer.analyze once more on the analyzer whose analyze has
\* returned, with the same AST: errors is a new list, scope_stack is the
\* field of the object
AnalyzeAgain ==
    /\ lang = "cpp"
    /\ pc = "analyzing"
    /\ todo = <<>>
    /\ history = <<>>
    /\ history' = <<[call |-> "analyze", errors |-> errors]>>
    /\ errors' = <<>>
    /\ todo' = ast.statements
    /\ UNCHANGED <<lang, contents, position, tokens, pc, ast, scope_stack, output,
                   converter>>

RepeatNext == Stage \/ PyGenerateAgain \/ GenerateAgain \/ AnalyzeAgain

SpecRepeat == RepeatInit /\ [][RepeatNext]_vars

\* the call named has returned, and it has returned a second time
ReturnedTwice(call) == history # <<>> /\ history[1].call = call

\* C18: generation is a function of the AST alone: generate_code called
\* twice on the same converter object with the same AST (PythonToCppConverter
\* and Converter) returns the same text both times; no set of declared
\* variables, declaration list or statement list is carried from the first
\* call to the second.
C18_GenerateTwice ==
    /\ (ReturnedTwice("generate_code") /\ pc \in {"generated", "blocked"})
           => output = history[1].output
    /\ (lang = "py" /\ pc = "generated" /\ history = <<>>) => converter = NewConverter

\* C19: every call of SemanticAnalyzer.analyze starts from an empty symbol
\* table: two successive calls on the same analyzer with the same AST
\* return equal diagnostic lists, and the global bindings the first call
\* made are not visible to the second.
C19_AnalyzeTwice ==
    /\ (ReturnedTwice("analyze") /\ pc = "analyzing" /\ todo = <<>>)
           => errors = history[1].errors
    /\ (ReturnedTwice("analyze") /\ pc = "analyzing" /\ todo = ast.statements
            /\ errors = <<>>)
           => scope_stack = <<<<>>>>

-----------------------------------------------------------------------------
(* parse_expression of the two parsers on chains of terms and operators    *)

\* bound of the chains: the number of operators
MaxOperators == 3

\* the terms of a chain, in turn
TermTokens ==
    <<Token("IDENTIFIER", <<"a">>), Token("NUMBER", <<"2">>), Token("STRING", Txt("\"s\""))>>

ChainOps == ArithmeticOps \cup ComparisonOps

\* the token of an operator as the lexer of the grammar l emits it
OperatorToken(l, op) ==
    Token(IF op \in ArithmeticOps THEN "ARITHMETIC_OPERATOR"
          ELSE IF l = "cpp" THEN "RELATIONAL_OPERATOR" ELSE "COMPARISON_OPERATOR",
          op)

\* the tokens of t1 op1 t2 ... opk t(k+1)
ChainTokens(l, ops) ==
    [j \in 1..(2 * Len(ops) + 1) |->
        IF j % 2 = 1 THEN TermTokens[((((j + 1) \div 2) - 1) % Len(TermTokens)) + 1]
        ELSE OperatorToken(l, ops[j \div 2])]

ExpressionsInit ==
    /\ lang \in {"cpp", "py"}
    /\ contents = <<>>
    /\ position = 0
    /\ \E k \in 0..MaxOperators : \E ops \in [1..k -> ChainOps] :
          tokens = ChainTokens(lang, ops)
    /\ pc = "tokenized"
    /\ Untouched

\* the state after parse_expression that left e: the tree, and the
\* parser's position
ExpressionParsed(e) ==
    IF e.ok THEN ast' = e.node /\ position' = e.pos /\ pc' = "parsed"
    ELSE ast' = ast /\ position' = position /\ pc' = "raised"

\* ExpressionParser.parse_expression of a parser built on the tokens
ParseExpression ==
    /\ pc = "tokenized"
    /\ ExpressionParsed(IF lang = "cpp" THEN CppParseExpression(tokens, 0)
                        ELSE PyParseExpression(tokens, 0))
    /\ UNCHANGED <<lang, contents, tokens, scope_stack, errors, todo, output, history,
                   converter>>

SpecExpressions == ExpressionsInit /\ [][ParseExpression]_vars

\* the node of a term
TermNode(tok) ==
    IF tok.type = "NUMBER" THEN Number(tok.value)
    ELSE IF tok.type = "IDENTIFIER" THEN Identifier(tok.value)
    ELSE [type |-> "STRING_LITERAL", value |-> tok.value]

\* the left-nested tree of the first n tokens of a chain
RECURSIVE LeftNested(_, _)
LeftNested(toks, n) ==
    IF n = 1 THEN TermNode(toks[1])
    ELSE Binary(toks[n - 1].value, LeftNested(toks, n - 2), TermNode(toks[n]))

\* C20: in both parsers parse_expression on the tokens t1 op1 t2 ... opk
\* t(k+1), terms separated by arithmetic or comparison operators without
\* parentheses, returns the left-nested tree (((t1 op1 t2) op2 t3) ... opk
\* t(k+1)) whatever the operators are: no operator binds tighter than
\* another.
C20_LeftNested ==
    pc # "tokenized"
        => /\ pc = "parsed"
           /\ position = Len(tokens)
           /\ ast = LeftNested(tokens, Len(tokens))

\* a + 2 * "s" has been parsed as (a + 2) * "s"
C20_Witness ==
    /\ pc = "parsed"
    /\ Len(tokens) = 5
    /\ tokens[2].value = <<"+">>
    /\ tokens[4].value = <<"*">>
    /\ ast.operator = <<"*">>
    /\ ast.left = Binary(<<"+">>, Identifier(<<"a">>), Number(<<"2">>))

-----------------------------------------------------------------------------
(* parse_statement of the two parsers on statements led by an identifier   *)

StatementNames == {<<"x">>, <<"n">>}

\* the right-hand sides: a term, and chains of terms and operators
RightSides == {<<"2">>, <<"y">>, Txt("y + 1"), Txt("2 * y - 1")}

\* the operators of a bare expression x op e
BareOps == ArithmeticOps \cup {<<"<">>, Txt("==")}

\* the end of a statement in the grammar l
End(l) == IF l = "cpp" THEN <<";">> ELSE <<>>

AssignForm(l, x, e) == x \o Txt(" = ") \o e \o End(l)
CompoundForm(l, x, op, e) == x \o <<" ">> \o op \o Txt("= ") \o e \o End(l)
PlainForm(l, x, op, e) == x \o Txt(" = ") \o x \o <<" ">> \o op \o <<" ">> \o e \o End(l)
IncrementForm(l, x, op) == x \o op \o End(l)
BareForm(l, x, op, e) == x \o <<" ">> \o op \o <<" ">> \o e \o End(l)
NameForm(l, x) == x \o End(l)

StatementForms(l) ==
    {AssignForm(l, x, e) : x \in StatementNames, e \in RightSides}
    \cup {CompoundForm(l, x, op, e) : x \in StatementNames, op \in ArithmeticOps, e \in RightSides}
    \cup {IncrementForm(l, x, op) : x \in StatementNames, op \in IncOps}
    \cup {BareForm(l, x, op, e) : x \in StatementNames, op \in BareOps, e \in RightSides}
    \cup {NameForm(l, x) : x \in StatementNames}

StatementsInit ==
    /\ lang \in {"cpp", "py"}
    /\ contents \in StatementForms(lang)
    /\ Unread

\* the state after parse_statement that left r: the node, and the parser's
\* position
StatementParsed(r) ==
    IF r.ok THEN ast' = r.node /\ position' = r.pos /\ pc' = "parsed"
    ELSE ast' = ast /\ position' = position /\ pc' = "raised"

\* StatementParser.parse_statement of a parser built on the tokens
ParseStatement ==
    /\ pc = "tokenized"
    /\ StatementParsed(IF lang = "cpp" THEN CppParseStatement(tokens, 0)
                       ELSE PyParseStatement(tokens, 0))
    /\ UNCHANGED <<lang, contents, tokens, scope_stack, errors, todo, output, history,
                   converter>>

\* x op= e has been handled: x = x op e is handed to a new tokenizer and
\* parser, what the first parser returned being kept
ParsePlainForm ==
    /\ pc \in {"parsed", "raised", "hang"}
    /\ history = <<>>
    /\ \E x \in StatementNames, op \in ArithmeticOps, e \in RightSides :
          /\ contents = CompoundForm(lang, x, op, e)
          /\ contents' = PlainForm(lang, x, op, e)
    /\ history' = <<[call |-> "parse_statement", contents |-> contents, pc |-> pc,
                     ast |-> ast]>>
    /\ position' = 0
    /\ tokens' = <<>>
    /\ pc' = "source"
    /\ ast' = None
    /\ UNCHANGED <<lang, scope_stack, errors, todo, output, converter>>

StatementsNext == Tokenize \/ TokenizeReturn \/ ParseStatement \/ ParsePlainForm

SpecStatements == StatementsInit /\ [][StatementsNext]_vars

\* parse_statement has ended on the first source of a run
FirstEnded == history = <<>> /\ pc \in {"parsed", "raised", "hang"}

\* the node is an INCREMENT of x, or a statement that holds one
IsIncrementOf(node, x, op) ==
    \/ node.type = "INCREMENT" /\ node.var_name = x /\ node.operator = op
    \/ /\ node.type = "EXPRESSION_STATEMENT"
       /\ node.expression.type = "INCREMENT"
       /\ node.expression.var_name = x
       /\ node.expression.operator = op

\* C21: in both parsers a statement led by an identifier is dispatched on
\* the token after it: = gives an ASSIGNMENT, a compound operator an
\* ASSIGNMENT of a BINARY_EXPRESSION with the identifier on its left, ++ or
\* -- an INCREMENT, and anything else (x + 1, x < y, x) a bare expression
\* statement, no syntax error being raised.
C21_IdentifierDispatch ==
    FirstEnded =>
        \A x \in StatementNames :
            /\ \A e \in RightSides :
                  /\ contents = AssignForm(lang, x, e) =>
                        pc = "parsed" /\ ast.type = "ASSIGNMENT" /\ ast.var_name = x
                  /\ \A op \in ArithmeticOps :
                        contents = CompoundForm(lang, x, op, e) =>
                            /\ pc = "parsed"
                            /\ ast.type = "ASSIGNMENT"
                            /\ ast.var_name = x
                            /\ ast.expression.type = "BINARY_EXPRESSION"
                            /\ ast.expression.operator = op
                            /\ ast.expression.left = Identifier(x)
                  /\ \A op \in BareOps :
                        contents = BareForm(lang, x, op, e) =>
                            pc = "parsed" /\ ast.type = "EXPRESSION_STATEMENT"
            /\ \A op \in IncOps :
                  contents = IncrementForm(lang, x, op) =>
                      pc = "parsed" /\ IsIncrementOf(ast, x, op)
            /\ contents = NameForm(lang, x) =>
                  pc = "parsed" /\ ast.type = "EXPRESSION_STATEMENT"

\* the same without the bare expressions, the increments of Python and the
\* C++ update with %
C21_AssignmentsOnly ==
    FirstEnded =>
        \A x \in StatementNames :
            /\ \A e \in RightSides :
                  /\ contents = AssignForm(lang, x, e) =>
                        pc = "parsed" /\ ast.type = "ASSIGNMENT" /\ ast.var_name = x
                  /\ \A op \in ArithmeticOps :
                        (contents = CompoundForm(lang, x, op, e)
                         /\ ~(lang = "cpp" /\ op = <<"%">>)) =>
                            /\ pc = "parsed"
                            /\ ast.type = "ASSIGNMENT"
                            /\ ast.var_name = x
                            /\ ast.expression.type = "BINARY_EXPRESSION"
                            /\ ast.expression.operator = op
                            /\ ast.expression.left = Identifier(x)
            /\ \A op \in IncOps :
                  (lang = "cpp" /\ contents = IncrementForm(lang, x, op)) =>
                      pc = "parsed" /\ IsIncrementOf(ast, x, op)

-----------------------------------------------------------------------------
(* The C++ tokenizer on words                                              *)

\* the fifteen words of the KEYWORD pattern
ListedKeywords == {CppKeywordWords[k] : k \in 1..Len(CppKeywordWords)}

\* identifier-shaped lexemes: the listed words, the one-letter names, and
\* names that hold or resemble a listed word
Words ==
    ListedKeywords \cup {<<c>> : c \in Lower \cup Upper \cup {"_"}}
        \cup {Txt("ints"), Txt("If"), Txt("x1"), Txt("bb"), Txt("in"), Txt("_b"),
              Txt("cout"), Txt("main"), Txt("endl"), Txt("std")}

WordsInit ==
    /\ lang = "cpp"
    /\ contents \in Words \cup {Txt("int ") \o w \o <<";">> : w \in Words}
    /\ Unread

WordsNext == Tokenize \/ TokenizeReturn

SpecWords == WordsInit /\ [][WordsNext]_vars

\* the token of the word of the source: the only one, or the second of
\* int w;
WordToken == IF Len(tokens) = 1 THEN tokens[1] ELSE tokens[2]

WordOf(source) == IF source \in Words THEN source ELSE SubSeq(source, 5, Len(source) - 1)

\* C22: the C++ tokenizer emits KEYWORD for an identifier-shaped lexeme
\* exactly when the lexeme is one of the fifteen listed words; every other
\* identifier-shaped lexeme, every one-letter name included, is emitted as
\* IDENTIFIER.
C22_KeywordsAreTheListed ==
    pc = "tokenized" =>
        /\ WordToken.value = WordOf(contents)
        /\ (WordToken.type = "KEYWORD") = (WordOf(contents) \in ListedKeywords)
        /\ WordOf(contents) \notin ListedKeywords => WordToken.type = "IDENTIFIER"

\* the same for all words but b
C22_ExceptB ==
    (pc = "tokenized" /\ WordOf(contents) # <<"b">>) =>
        /\ WordToken.value = WordOf(contents)
        /\ (WordToken.type = "KEYWORD") = (WordOf(contents) \in ListedKeywords)
        /\ WordOf(contents) \notin ListedKeywords => WordToken.type = "IDENTIFIER"

\* parse_statement has ended on x = x op e after it ended on x op= e
BothParsed == history # <<>> /\ pc \in {"parsed", "raised", "hang"}

\* C23: in both parsers, for every identifier x, operator op and right-hand
\* expression e, a single term or a chain of terms and operators, parsing
\* x op= e and parsing x = x op e give the same ASSIGNMENT node.
C23_SameAssignment ==
    BothParsed =>
        /\ history[1].pc = "parsed"
        /\ pc = "parsed"
        /\ ast.type = "ASSIGNMENT"
        /\ ast = history[1].ast

\* the same for right-hand sides of one term, the C++ update with % left out
C23_SingleTerms ==
    BothParsed =>
        \A x \in StatementNames, op \in ArithmeticOps, e \in {<<"2">>, <<"y">>} :
            (history[1].contents = CompoundForm(lang, x, op, e)
             /\ ~(lang = "cpp" /\ op = <<"%">>)) =>
                /\ history[1].pc = "parsed"
                /\ pc = "parsed"
                /\ ast.type = "ASSIGNMENT"
                /\ ast = history[1].ast

-----------------------------------------------------------------------------
(* The text of one direction as a source of the other                      *)

\* the source under translation is the text an earlier translation returned
FedBack == history # <<>> /\ history[1].call = "translate"

\* C24: the supported subset is closed under translation: the text that one
\* direction generates for a source it translates is accepted by the
\* tokenizer, the parser and the analyzer of the other direction, without a
\* lexical, a syntax or a semantic error; the text includes the program
\* header, endl, the formatted print calls and the range arguments.
C24_ClosedUnderTranslation ==
    FedBack =>
        /\ pc \notin {"raised", "hang", "blocked"}
        /\ ErrorEntries(errors) = <<>>

\* some generated texts are accepted: those of the C++ declarations
C24_Declarations ==
    (FedBack /\ history[1].lang = "cpp" /\ history[1].contents \in CppDeclarations) =>
        /\ pc \notin {"raised", "hang", "blocked"}
        /\ ErrorEntries(errors) = <<>>

-----------------------------------------------------------------------------
(* Return statements in C++ functions                                      *)

\* functions with return statements: in a function body, in main, under an
\* if, a while and a for, and two functions with equal return statements
CppReturns ==
    { Txt("int f() { return 1; }"),
      Txt("int main() { return 0; }"),
      Txt("int f() { return 0; } int main() { return 0; }"),
      Txt("int main() { return 0; } int f() { return 0; }"),
      Txt("int f() { return 1; } int main() { return 0; }"),
      Txt("int f() { int x = 1; if (x < 2) { return 1; } return 2; }"),
      Txt("int f() { int x = 1; if (x < 2) return 1; }"),
      Txt("int f() { int x = 1; while (x < 2) { return 1; } }"),
      Txt("int f() { for (int i = 0; i < 2; i++) { return 1; } }"),
      Txt("int main() { int x = 1; if (x < 2) { return 1; } }"),
      Txt("int f() { return 1; } int main() { f(); return 0; }") }

ReturnsInit ==
    /\ lang = "cpp"
    /\ contents \in CppReturns
    /\ Unread

\* the steps of the C++ direction
CppStage ==
    \/ Tokenize
    \/ TokenizeReturn
    \/ Parse
    \/ BeginAnalysis
    \/ AnalyzeStatement
    \/ ExitScopeStep
    \/ GateBlocks
    \/ Generate

SpecReturns == ReturnsInit /\ [][CppStage]_vars

\* the expressions of the return statements nested in a node, in source
\* order; the sources return number literals
RECURSIVE ReturnsIn(_), ReturnsInList(_, _)
ReturnsInList(list, k) ==
    IF k > Len(list) THEN <<>> ELSE ReturnsIn(list[k]) \o ReturnsInList(list, k + 1)
ReturnsIn(node) ==
    CASE node.type = "RETURN_STATEMENT" -> <<node.expression.value>>
      [] node.type = "BLOCK" -> ReturnsInList(node.statements, 1)
      [] node.type = "FUNCTION_DEFINITION" -> ReturnsInList(node.body, 1)
      [] node.type = "IF_STATEMENT" ->
             ReturnsIn(node.true_branch) \o ReturnsIn(node.false_branch)
      [] node.type \in {"WHILE_LOOP", "FOR_LOOP"} -> ReturnsIn(node.body)
      [] OTHER -> <<>>

\* the return lines the program is to generate: those of the functions
\* other than main
RECURSIVE ExpectedReturns(_, _)
ExpectedReturns(list, k) ==
    IF k > Len(list) THEN <<>>
    ELSE (IF list[k].type = "FUNCTION_DEFINITION" /\ list[k].func_name # Txt("main")
          THEN [j \in 1..Len(ReturnsIn(list[k])) |-> Txt("return ") \o ReturnsIn(list[k])[j]]
          ELSE <<>>)
             \o ExpectedReturns(list, k + 1)

ReturnLines(t) == SelectSeq(Lines(t), LAMBDA line : StartsAt(line, 0, Txt("return")))

\* C25: C++ to Python, a return statement is emitted as return e exactly
\* when the function that encloses it is not main and dropped exactly when
\* it is main, at every nesting depth (under if, while, for) and also when
\* another function holds an equal return statement.
C25_ReturnsOfFunctions ==
    (lang = "cpp" /\ pc = "generated" /\ contents \in CppReturns) =>
        ReturnLines(output) = ExpectedReturns(ast.statements, 1)

\* the same for a return statement directly in the body of the only
\* function of the program
C25_DirectReturns ==
    (lang = "cpp" /\ pc = "generated"
     /\ contents \in {Txt("int f() { return 1; }"), Txt("int main() { return 0; }"),
                      Txt("int f() { return 1; } int main() { return 0; }")}) =>
        ReturnLines(output) = ExpectedReturns(ast.statements, 1)

-----------------------------------------------------------------------------
(* The analyzer and the generator on the for loops the parser accepts      *)

\* for loops with each part in each shape the parser accepts: an empty
\* condition, an empty increment, a bound that is a name or a literal, a
\* condition that is not a comparison, an assignment as initialization
CppForLoops ==
    { Txt("for (int i = 0; ; i++) cout << i;"),
      Txt("for (int i = 0; i < 3; ) cout << i;"),
      Txt("for (int i = 0; i; i++) cout << i;"),
      Txt("for (int i = 0; i < 3; i++) cout << i;"),
      Txt("int i = 0; for (i = 0; i < 2; i = i + 1) { cout << i; }") }
    \cup {Txt("int n = 3; for (int i = 0; i ") \o op \o Txt(" n; i++) cout << i;") :
             op \in LoopOps}

ForLoopsInit ==
    /\ lang = "cpp"
    /\ contents \in CppForLoops
    /\ Unread

SpecForLoops == ForLoopsInit /\ [][CppStage]_vars

\* C26: no stage after a successful C++ parse raises: for every AST that
\* parse_program returns analyze returns a diagnostic list, and whenever
\* the list is empty generate_code returns target text; so for the for
\* loops with an empty condition, an empty increment, or a name as the
\* bound under <= or >=.
C26_NoRaiseAfterParse ==
    (lang = "cpp" /\ ast # None) =>
        /\ pc # "raised"
        /\ pc = "blocked" => errors # <<>>

\* the same for the loops with a condition, an increment and, under <= and
\* >=, a literal bound
C26_FullLoops ==
    (lang = "cpp" /\ ast # None
     /\ contents \in {Txt("for (int i = 0; i; i++) cout << i;"),
                      Txt("for (int i = 0; i < 3; i++) cout << i;"),
                      Txt("int i = 0; for (i = 0; i < 2; i = i + 1) { cout << i; }"),
                      Txt("int n = 3; for (int i = 0; i < n; i++) cout << i;"),
                      Txt("int n = 3; for (int i = 0; i > n; i++) cout << i;")}) =>
        /\ pc # "raised"
        /\ pc = "blocked" => errors # <<>>

-----------------------------------------------------------------------------
(* The scope stack of the C++ analyzer                                     *)

\* the exits of scopes that are still to come
PendingExits == Cardinality({k \in 1..Len(todo) : todo[k] = ExitScope})

\* analyze has handled every statement and returns its list
AnalyzeReturns == pc = "analyzing" /\ todo = <<>>

\* C27: during analyze the scope stack always holds at least one frame (the
\* global frame is never popped); every frame pushed for a block or a
\* function is popped when that block or function has been analysed, so the
\* frames above the global one are exactly those whose exit is pending; and
\* when analyze returns normally the depth is exactly 1.
C27_ScopeBalance ==
    lang = "cpp" =>
        /\ (pc \in {"analyzing", "blocked", "generated"} \/ (pc = "raised" /\ ast # None))
               => Len(scope_stack) >= 1
        /\ pc = "analyzing" => Len(scope_stack) = 1 + PendingExits
        /\ (AnalyzeReturns \/ pc \in {"blocked", "generated"}) => Len(scope_stack) = 1

\* analyze returns for a program with a function: the two frames of main
\* have been pushed and popped
C27_Witness ==
    /\ lang = "cpp"
    /\ AnalyzeReturns
    /\ ast.statements # <<>>
    /\ ast.statements[1].type = "FUNCTION_DEFINITION"
    /\ Len(scope_stack) = 1
    /\ InFrame(scope_stack[1], Txt("main"))

-----------------------------------------------------------------------------
(* The Python parser on nested statements                                  *)

\* bound of the sources: the statements nested under a header
MaxNested == 2

PyHeaders == {Txt("while x < 2:"), Txt("for i in range(2):"), Txt("if x < 1:")}

\* the statements a = 1 ... a = n, each on a line of its own, indented
RECURSIVE NestedLines(_, _)
NestedLines(k, n) ==
    IF k > n THEN <<>> ELSE Txt("\n    a = ") \o IntStr(k) \o NestedLines(k + 1, n)

\* a header with n statements nested under it, and after them one statement
\* at the level of the header when follows
NestedSource(header, n, follows) ==
    header \o NestedLines(1, n) \o (IF follows THEN Txt("\nb = 1") ELSE <<>>)

NestingInit ==
    /\ lang = "py"
    /\ \E header \in PyHeaders, n \in 1..MaxNested, follows \in BOOLEAN :
          contents = NestedSource(header, n, follows)
    /\ Unread

NestingNext == Tokenize \/ TokenizeReturn \/ Parse

SpecNesting == NestingInit /\ [][NestingNext]_vars

\* the statements recorded as the body of a while, for or if node
BodyOf(node) == IF node.type = "IF_STATEMENT" THEN node.true_branch.statements ELSE node.body

AssignmentOf(name, k) ==
    [type |-> "ASSIGNMENT", var_name |-> name, expression |-> Number(IntStr(k))]

\* the program has the construct with the n nested statements as its body,
\* and after it the statement that follows in the source
NestedAsWritten(program, n, follows) ==
    /\ Len(program.statements) = 1 + (IF follows THEN 1 ELSE 0)
    /\ BodyOf(program.statements[1]) = [k \in 1..n |-> AssignmentOf(<<"a">>, k)]
    /\ follows => program.statements[2] = AssignmentOf(<<"b">>, 1)

\* C28: the body the Python parser records for a while, for or if node
\* holds exactly the statements nested under the header in the source, and
\* the first statement after the construct at the level of the header is a
\* sibling in the enclosing list; sources that differ only in which
\* statements are nested have different trees.
C28_BodiesFollowNesting ==
    (lang = "py" /\ pc \in {"parsed", "raised", "hang"}) =>
        \A header \in PyHeaders, n \in 1..MaxNested, follows \in BOOLEAN :
            contents = NestedSource(header, n, follows) =>
                pc = "parsed" /\ NestedAsWritten(ast, n, follows)

\* the same for one nested statement, nothing following a while
C28_OneStatement ==
    (lang = "py" /\ pc \in {"parsed", "raised", "hang"}) =>
        \A header \in PyHeaders, follows \in BOOLEAN :
            (contents = NestedSource(header, 1, follows)
             /\ ~(follows /\ header = Txt("while x < 2:"))) =>
                pc = "parsed" /\ NestedAsWritten(ast, 1, follows)


-----------------------------------------------------------------------------
(* Expressions with parentheses: the tree, its generated text, and the     *)
(* tree of that text                                                       *)

GroupOps == {<<"-">>, <<"+">>, <<"*">>, <<"<">>}

\* x op1 y op2 z written flat, with the right operand in parentheses, and
\* with the left operand in parentheses
FlatGroup(op1, op2) ==
    <<"x", " ">> \o op1 \o <<" ", "y", " ">> \o op2 \o <<" ", "z">>

RightGroup(op1, op2) ==
    <<"x", " ">> \o op1 \o <<" ", "(", "y", " ">> \o op2 \o <<" ", "z", ")">>

LeftGroup(op1, op2) ==
    <<"(", "x", " ">> \o op1 \o <<" ", "y", ")", " ">> \o op2 \o <<" ", "z">>

GroupedExpressions ==
    {FlatGroup(op1, op2) : op1 \in GroupOps, op2 \in GroupOps}
        \cup {RightGroup(op1, op2) : op1 \in GroupOps, op2 \in GroupOps}
        \cup {LeftGroup(op1, op2) : op1 \in GroupOps, op2 \in GroupOps}

GroupingInit ==
    /\ lang \in {"cpp", "py"}
    /\ contents \in GroupedExpressions
    /\ position = 0
    /\ tokens = <<>>
    /\ pc = "source"
    /\ Untouched

\* the generator of the direction on the tree of the expression:
\* Converter.generate_node, PythonToCppConverter.generate_expression
GenerateExpression ==
    /\ pc = "parsed"
    /\ history = <<>>
    /\ Emitted(IF lang = "cpp" THEN generate_node(ast, <<>>, 0, scope_stack, ast)
               ELSE generate_expression(ast, <<>>, FALSE))
    /\ UNCHANGED <<lang, contents, position, tokens, ast, scope_stack, errors, todo,
                   history, converter>>

\* the generated text is given to a lexer and a parser of either grammar
ReadGenerated ==
    /\ pc = "generated"
    /\ history = <<>>
    /\ history' = <<[call |-> "generate_expression", lang |-> lang,
                     contents |-> contents, ast |-> ast]>>
    /\ lang' \in {"cpp", "py"}
    /\ contents' = output
    /\ position' = 0
    /\ tokens' = <<>>
    /\ pc' = "source"
    /\ ast' = None
    /\ UNCHANGED <<scope_stack, errors, todo, output, converter>>

GroupingNext ==
    Tokenize \/ TokenizeReturn \/ ParseExpression \/ GenerateExpression \/ ReadGenerated

SpecGrouping == GroupingInit /\ [][GroupingNext]_vars

\* the generated text has been read: its parse returned, raised or hung
GeneratedRead == history # <<>> /\ pc \in {"parsed", "raised", "hang"}

\* C29: the text generated from an expression tree, in either direction,
\* denotes the tree it was generated from: parse_expression on the tokens
\* of the generated text returns that tree, also where the right operand
\* of the tree is a binary expression written in parentheses in the source.
C29_GroupingPreserved ==
    GeneratedRead => (pc = "parsed" /\ ast = history[1].ast)

\* no right operand of the tree is a binary expression
RECURSIVE LeftDeep(_)
LeftDeep(node) ==
    node.type = "BINARY_EXPRESSION"
        => (node.right.type # "BINARY_EXPRESSION" /\ LeftDeep(node.left))

\* the text generated from a tree without a binary right operand denotes
\* that tree
C29_LeftNestedTrees ==
    (GeneratedRead /\ LeftDeep(history[1].ast))
        => (pc = "parsed" /\ ast = history[1].ast)


-----------------------------------------------------------------------------
(* ui.py: the conversion worker and the window that starts it              *)
(* history is the list of what the window and the worker did, in order:    *)
(* setEnabled on the two buttons, the message boxes of convert_code, and   *)
(* the signals the worker emitted                                          *)

WorkerSources(l) ==
    IF l = "cpp"
    THEN {<<>>, Txt("int x = 2;"), Txt(" cout << 2; "), Txt("y = 2;"), Txt("int x = ;"),
          Txt("int x @"), <<";">>,
          Txt("for (int i = 0; i < 2; i++) { cout << i; }")}
    ELSE {<<>>, Txt("x = 2"), Txt(" print(2) "), Txt("x ="), Txt("x = 2 $"),
          Txt("# x"), Txt("(x)"), Txt("print(y)")}

WorkerInit ==
    /\ lang \in {"cpp", "py"}
    /\ contents \in WorkerSources(lang)
    /\ position = 0
    /\ tokens = <<>>
    /\ pc = "idle"
    /\ Untouched

SetEnabled(value) == [call |-> "setEnabled", enabled |-> value]

Emit(name, message) == [call |-> "emit", signal |-> name, text |-> message]

\* CodeConverterWindow.convert_code with the source text of the window,
\* its source language and a target language of the combo box
convert_code ==
    /\ pc = "idle"
    /\ history = <<>>
    /\ \E target_language \in {"cpp", "py"} :
          LET source_code == Strip(contents, WhiteSpace) IN
          IF source_code = <<>>
          THEN /\ history' = <<[call |-> "QMessageBox.critical"]>>
               /\ UNCHANGED <<contents, pc>>
          ELSE IF lang = target_language
          THEN /\ history' = <<[call |-> "QMessageBox.warning"]>>
               /\ UNCHANGED <<contents, pc>>
          ELSE /\ history' = <<SetEnabled(FALSE)>>
               /\ contents' = source_code
               /\ pc' = "source"
    /\ UNCHANGED <<lang, position, tokens, ast, scope_stack, errors, todo, output,
                   converter>>

\* process_file of the direction, in the worker: the four stages on the
\* text of the temporary file
process_file == Stage

\* ConverterThread.run once process_file has returned or raised: the one
\* signal of the run
RunEmits ==
    /\ pc \in {"generated", "blocked", "raised"}
    /\ history # <<>>
    /\ LET converted_code == output IN
       history' = Append(history,
           IF pc = "raised" THEN Emit("error", Txt("An unexpected error occurred"))
           ELSE IF Strip(converted_code, WhiteSpace) = <<>>
           THEN Emit("error", Txt("Converted code is empty"))
           ELSE Emit("result", converted_code))
    /\ pc' = "finished"
    /\ UNCHANGED <<lang, contents, position, tokens, ast, scope_stack, errors, todo,
                   output, converter>>

\* CodeConverterWindow.on_thread_finished
on_thread_finished ==
    /\ pc = "finished"
    /\ history' = Append(history, SetEnabled(TRUE))
    /\ pc' = "idle"
    /\ UNCHANGED <<lang, contents, position, tokens, ast, scope_stack, errors, todo,
                   output, converter>>

WorkerNext == convert_code \/ process_file \/ RunEmits \/ on_thread_finished

SpecWorker == WorkerInit /\ [][WorkerNext]_vars

\* the signals emitted so far
Signals == SelectSeq(history, LAMBDA event : event.call = "emit")

\* the Convert and Clear buttons as the last setEnabled left them
ButtonsEnabled ==
    LET sets == SelectSeq(history, LAMBDA event : event.call = "setEnabled")
    IN sets = <<>> \/ sets[Len(sets)].enabled

\* a worker was started
Started == history # <<>> /\ history[1] = SetEnabled(FALSE)

\* what a run that is over leaves: one signal, error where the stages
\* raised or gave no text and result with the text otherwise, and the
\* buttons enabled
OneSignal ==
    /\ Len(Signals) = 1
    /\ IF Strip(output, WhiteSpace) = <<>> THEN Signals[1].signal = "error"
       ELSE Signals[1] = Emit("result", output)
    /\ ButtonsEnabled

C30_ReturningRuns ==
    /\ Len(Signals) <= 1
    /\ (Started /\ pc = "idle") => OneSignal
=============================================================================
